---- MODULE Spec2Model ----
(***************************************************************************)
(* Model of the Tele MANAS request client (TeleManasAPIClient):            *)
(* makeRequest with its retry loop, _executeRequest with its timeout       *)
(* timer, the non-retryable error classification, and the derived          *)
(* operations getCallCount, getTMCData and getAllData.                     *)
(*                                                                         *)
(* A "slot" is one call of makeRequest.  Slot "req" is a direct call with  *)
(* caller-supplied options; slots "cc" and "tmc" are the calls made by     *)
(* getCallCount and getTMCData inside getAllData.                          *)
(***************************************************************************)
EXTENDS Integers, Sequences, FiniteSets, TLC

\* ------------------------------------------------------------------ bounds
\* Largest maxRetries a directly called client is constructed with.
MaxRetriesBound == 3
\* Largest maxRetries of the client used by getAllData (two calls interleave).
MaxRetriesAll == 3

\* -------------------------------------------------------- program constants
DefaultTimeout == 15000
DefaultMaxRetries == 3
DefaultRetryDelay == 1000

\* ------------------------------------------------------------ JS values
\* A scalar JS value: t is the type tag, s the string and n the number payload.
JUndef == [t |-> "undefined", s |-> "", n |-> 0]
JNull == [t |-> "null", s |-> "", n |-> 0]
JStr(str) == [t |-> "string", s |-> str, n |-> 0]
JNum(num) == [t |-> "number", s |-> "", n |-> num]

\* JS truthiness of a scalar, as used by the || operator.
Truthy(v) ==
  CASE v.t = "string" -> v.s # ""
    [] v.t = "number" -> v.n # 0 \/ v.s # ""
    [] v.t = "boolean" -> v.n # 0
    [] v.t = "array" -> TRUE
    [] OTHER -> FALSE

\* a || b on scalars.
OrElse(a, b) == IF Truthy(a) THEN a ELSE b

\* An object is a function from property names to values; {} is <<>>.
EmptyObj == <<>>
Has(o, k) == k \in DOMAIN o

\* { ...a, ...b }: every own key of b overrides the same key of a.
Spread(a, b) ==
  [k \in (DOMAIN a) \cup (DOMAIN b) |-> IF k \in DOMAIN b THEN b[k] ELSE a[k]]

\* --------------------------------------------------------- constructor
\* options.x || dflt for a numeric constructor option; 0 stands for an
\* option that is absent (undefined) or otherwise falsy.
OptOr(opt, dflt) == IF opt # 0 THEN opt ELSE dflt

Client(maxRetriesOpt, retryDelayOpt, timeoutOpt) ==
  [maxRetries |-> OptOr(maxRetriesOpt, DefaultMaxRetries),
   retryDelay |-> OptOr(retryDelayOpt, DefaultRetryDelay),
   timeout |-> OptOr(timeoutOpt, DefaultTimeout)]

defaultHeaders ==
  [k \in {"Accept", "Referer", "User-Agent", "Cookie"} |->
     CASE k = "Accept" -> "application/json"
       [] k = "Referer" -> "https://telemanas.mohfw.gov.in/telemanas-dashboard/"
       [] k = "User-Agent" -> "Mozilla/5.0 (Windows NT 10.0; Win64; x64) AppleWebKit/537.36 (KHTML, like Gecko) Chrome/120.0.0.0 Safari/537.36"
       [] k = "Cookie" -> "_gcl_au=1.1.1553982654.1761285178"]

\* ------------------------------------------------------------- errors
\* An Error object: code ("" when the error has no code) and message, both
\* strings.
Err(code, message) == [code |-> code, message |-> message]
NoError == Err("", "")

\* String.prototype.includes: pat occurs in message at some position.
Includes(message, pat) ==
  \E i \in 1..(Len(message) - Len(pat) + 1) :
    SubSeq(message, i, i + Len(pat) - 1) = pat

\* The transport errors Node raises on the request ('error' event), by name.
SystemError(code) ==
  CASE code = "ECONNREFUSED" -> Err(code, "connect ECONNREFUSED 127.0.0.1:443")
    [] code = "ENOTFOUND" -> Err(code, "getaddrinfo ENOTFOUND telemanas.mohfw.gov.in")
    [] code = "ECONNRESET" -> Err(code, "read ECONNRESET")
    [] code = "HANGUP" -> Err("ECONNRESET", "socket hang up")
    [] code = "ETIMEDOUT" -> Err(code, "connect ETIMEDOUT 127.0.0.1:443")
    [] code = "EPIPE" -> Err(code, "write EPIPE")

TimeoutError == Err("", "Request timeout")

\* Mutant: the list lacks 'ECONNREFUSED'.
nonRetryableErrors_noRefused ==
  {"ENOTFOUND", "ECONNRESET", "Request timeout"}

\* Mutant: the list lacks 'Request timeout'.
nonRetryableErrors_noTimeout ==
  {"ENOTFOUND", "ECONNREFUSED", "ECONNRESET"}

nonRetryableErrors ==
  {"ENOTFOUND", "ECONNREFUSED", "ECONNRESET", "Request timeout"}

_isNonRetryableError(error) ==
  \E errType \in nonRetryableErrors :
    \/ Includes(error.message, errType)
    \/ error.code = errType

\* ---------------------------------------------------------- responses
\* res.statusMessage for the statuses the model's server answers with.
StatusMessage(status) ==
  CASE status = 200 -> "OK"
    [] status = 299 -> "Unknown"
    [] status = 300 -> "Multiple Choices"
    [] status = 399 -> "Unknown"
    [] status = 400 -> "Bad Request"
    [] status = 404 -> "Not Found"
    [] status = 499 -> "Unknown"
    [] status = 500 -> "Internal Server Error"
    [] status = 503 -> "Service Unavailable"
    [] OTHER -> "Unknown"

\* Response header set delivered by the transport (passed through untouched).
ServerHeaders == [k \in {"content-type"} |-> "application/json"]

\* A parsed JSON body or a raw text body: t = "object" (o holds the
\* properties), "null", or "string" (s holds the text).
DObj(o) == [t |-> "object", o |-> o, s |-> ""]
DNull == [t |-> "null", o |-> EmptyObj, s |-> ""]
DText(text) == [t |-> "string", o |-> EmptyObj, s |-> text]

\* The body texts the model's server sends.
BodyCalls == "{\"Total_Calls\":\"2821889\"}"
BodyCallsZero == "{\"Total_Calls\":0}"
BodyCallsBlank == "{\"Total_Calls\":\"\"}"
BodyCallsNumber == "{\"Total_Calls\":2821889}"
BodyCallsNA == "{\"Total_Calls\":\"N/A\"}"
BodyTMC == "{\"TMC\":\"53\",\"MI\":\"23\",\"RCC\":\"5\"}"
BodyTMCOnly == "{\"TMC\":\"53\"}"
BodyEmptyObj == "{}"
BodyNull == "null"
BodyHtml == "<html>Bad Gateway</html>"
BodyNone == ""

\* JSON.parse on those texts: ok = FALSE where JSON.parse throws.
JSONParse(text) ==
  CASE text = BodyCalls ->
         [ok |-> TRUE, value |-> DObj([k \in {"Total_Calls"} |-> JStr("2821889")])]
    [] text = BodyCallsZero ->
         [ok |-> TRUE, value |-> DObj([k \in {"Total_Calls"} |-> JNum(0)])]
    [] text = BodyCallsBlank ->
         [ok |-> TRUE, value |-> DObj([k \in {"Total_Calls"} |-> JStr("")])]
    [] text = BodyCallsNumber ->
         [ok |-> TRUE, value |-> DObj([k \in {"Total_Calls"} |-> JNum(2821889)])]
    [] text = BodyCallsNA ->
         [ok |-> TRUE, value |-> DObj([k \in {"Total_Calls"} |-> JStr("N/A")])]
    [] text = BodyTMC ->
         [ok |-> TRUE, value |-> DObj([k \in {"TMC", "MI", "RCC"} |->
            CASE k = "TMC" -> JStr("53") [] k = "MI" -> JStr("23") [] k = "RCC" -> JStr("5")])]
    [] text = BodyTMCOnly ->
         [ok |-> TRUE, value |-> DObj([k \in {"TMC"} |-> JStr("53")])]
    [] text = BodyEmptyObj -> [ok |-> TRUE, value |-> DObj(EmptyObj)]
    [] text = BodyNull -> [ok |-> TRUE, value |-> DNull]
    [] OTHER -> [ok |-> FALSE, value |-> DNull]

\* Mutant: the upper end of the ok range is off by one.
IsOk_narrow(status) == status >= 200 /\ status < 299

\* res.statusCode >= 200 && res.statusCode < 300
IsOk(status) == status >= 200 /\ status < 300

\* Mutant: a body that does not parse makes the response not ok.
ResponseOf_strict(status, text) ==
  LET parsed == JSONParse(text)
  IN [ok |-> IsOk(status) /\ parsed.ok,
      status |-> status,
      statusText |-> StatusMessage(status),
      data |-> IF parsed.ok THEN parsed.value ELSE DText(text),
      headers |-> ServerHeaders]

\* The object _executeRequest resolves with on res 'end'.
ResponseOf(status, text) ==
  LET parsed == JSONParse(text)
  IN [ok |-> IsOk(status),
      status |-> status,
      statusText |-> StatusMessage(status),
      data |-> IF parsed.ok THEN parsed.value ELSE DText(text),
      headers |-> ServerHeaders]

NoResponse ==
  [ok |-> FALSE, status |-> 0, statusText |-> "", data |-> DNull, headers |-> EmptyObj]

\* new Error(`HTTP ${response.status}: ${response.statusText}`)
HttpError(response) ==
  Err("", "HTTP " \o ToString(response.status) \o ": " \o response.statusText)

\* Mutant: redirects are returned like client errors.
IsClientError_redirect(status) == status >= 300 /\ status < 500

\* Mutant: only 400 itself is excluded from the client-error range.
IsClientError_open(status) == status > 400 /\ status < 500

\* response.status >= 400 && response.status < 500
IsClientError(status) == status >= 400 /\ status < 500

\* ------------------------------------------------------- makeRequest
\* requestOptions as built at the top of makeRequest.  options is the
\* caller's options object; a key it does not own is undefined.
RequestOptions(client, options) ==
  Spread(
    [k \in {"method", "headers", "timeout"} |->
       CASE k = "method" -> IF Has(options, "method") THEN options["method"] ELSE "GET"
         [] k = "headers" ->
              Spread(defaultHeaders,
                     IF Has(options, "headers") THEN options["headers"] ELSE EmptyObj)
         [] k = "timeout" ->
              IF Has(options, "timeout") THEN OptOr(options["timeout"], client.timeout)
              ELSE client.timeout],
    options)

\* Mutant: the exponent is attempt instead of attempt - 1.
BackoffDelay_late(retryDelay, n) == retryDelay * 2^n

\* this.retryDelay * Math.pow(2, attempt - 1)
BackoffDelay(retryDelay, n) == retryDelay * 2^(n - 1)

\* attempt < this.maxRetries: a wait follows the failed attempt n.
WaitsAfter(n, maxRetries) == n < maxRetries

\* Mutant: the first error is kept.
NextLastError_first(prev, error) == IF prev = [code |-> "", message |-> ""] THEN error ELSE prev

\* lastError after a failed attempt: always the error of that attempt.
NextLastError(prev, error) == error

\* ------------------------------------------------------------- state
Slots == {"req", "cc", "tmc"}

VARIABLES
  client,     \* the constructed TeleManasAPIClient: maxRetries, retryDelay, timeout
  opts,       \* per slot: the options object makeRequest was called with
  reqOpts,    \* per slot: requestOptions
  pc,         \* per slot: "idle", "await", "backoff", "returned", "thrown"
  attempt,    \* per slot: the loop variable attempt
  lastError,  \* per slot: lastError
  ret,        \* per slot: what makeRequest returned or threw
  waited,     \* per slot: total ms passed to _sleep so far
  log,        \* per slot: the outcome of each finished attempt, in order
  ex,         \* per slot: the _executeRequest promise of the current attempt
  sub,        \* getCallCount / getTMCData: settlement of each sub-call
  all,        \* getAllData: "idle", "pending", "fulfilled", "rejected" and its value
  conn,       \* testConnection: its promise
  scr,        \* scrape: its position in the strategy list and its result
  web,        \* _makeWebRequest: the promise of the HTML page request
  html,       \* _extractDataFromHTML: the document it is given, as its fragments
  extracted,  \* _extractDataFromHTML: what it returned
  prev,       \* the caller of scrape(): what an earlier call saw and returned
  svc,        \* TeleManasDataService: dataCache, the clock and its calls
  mock,       \* the mock server: mockData
  proxy,      \* the proxy server: a request in progress and its upstream request
  tests,      \* testAllMethods: the method it awaits and its results so far
  pick,       \* getDataWithMethod: where it is, the preferred method, its result
  doubles     \* a scraper under test: what the doubles of its methods settled with

vars == <<client, opts, reqOpts, pc, attempt, lastError, ret, waited, log, ex, sub, all,
          conn, scr, web, html, extracted, prev, svc, mock, proxy, tests, pick, doubles>>

NoRet == [kind |-> "none", response |-> NoResponse, error |-> NoError]
Returned(response) == [kind |-> "response", response |-> response, error |-> NoError]
Thrown(error) == [kind |-> "error", response |-> NoResponse, error |-> error]

\* The promise of _executeRequest: phase "none" (not called), "pending"
\* (request sent, no response yet), "receiving" (response callback ran, body
\* arriving), "settled".  timer: the setTimeout is armed.  body: the text
\* collected in data.  aborted: controller.signal.aborted.  abortPending: the
\* request's 'error' event caused by the abort is still to come.
NoEx ==
  [phase |-> "none", timer |-> FALSE, timerMs |-> 0, status |-> 0, body |-> "",
   method |-> "", headers |-> EmptyObj, aborted |-> FALSE, abortPending |-> FALSE]

\* Log entries: a response (its status), a transport error (its name) or a timeout.
LogResponse(status) == [kind |-> "response", status |-> status, name |-> ""]
LogError(name) == [kind |-> "error", status |-> 0, name |-> name]
LogTimeout == [kind |-> "timeout", status |-> 0, name |-> ""]

\* What the server and the network may do, per slot.
Statuses(s) ==
  IF s = "req" THEN {200, 299, 300, 399, 400, 499, 500, 503} ELSE {200, 404, 500}
ErrorNames(s) ==
  IF s = "req" THEN {"ECONNREFUSED", "ENOTFOUND", "ECONNRESET", "HANGUP", "ETIMEDOUT"}
  ELSE {"ECONNREFUSED", "ETIMEDOUT"}
Bodies(s) ==
  CASE s = "req" -> {BodyCalls, BodyHtml, BodyNone, BodyNull}
    [] s = "cc" -> {BodyCalls, BodyCallsZero, BodyCallsBlank, BodyCallsNumber, BodyCallsNA,
                    BodyEmptyObj, BodyNull, BodyHtml}
    [] s = "tmc" -> {BodyTMC, BodyTMCOnly, BodyNull, BodyHtml}

\* Caller-supplied header overrides of a direct call.
CallerHeaders ==
  { EmptyObj,
    [k \in {"X-Test"} |-> "1"],
    [k \in {"Accept"} |-> "text/html"],
    [k \in {"Accept", "X-Test"} |-> IF k = "Accept" THEN "text/html" ELSE "1"] }

\* The options objects of a direct call.
CallerOptions ==
  {EmptyObj} \cup {[k \in {"headers"} |-> h] : h \in CallerHeaders}
    \cup {[k \in {"timeout"} |-> 5000]}

\* The first, synchronous part of _executeRequest: arm the timer and send
\* the request with options.method and options.headers.
_executeRequest(ro) ==
  [phase |-> "pending", timer |-> TRUE, timerMs |-> ro["timeout"], status |-> 0,
   body |-> "", method |-> ro["method"], headers |-> ro["headers"],
   aborted |-> FALSE, abortPending |-> FALSE]

\* The state of the makeRequest call in slot s, and of all of them.
SlotOf(s) ==
  [opts |-> opts[s], reqOpts |-> reqOpts[s], pc |-> pc[s], attempt |-> attempt[s],
   lastError |-> lastError[s], ret |-> ret[s], waited |-> waited[s], log |-> log[s],
   ex |-> ex[s]]
Current == [s \in Slots |-> SlotOf(s)]

\* A slot in which no call has been made.
FreeSlot ==
  [opts |-> EmptyObj, reqOpts |-> EmptyObj, pc |-> "idle", attempt |-> 0,
   lastError |-> NoError, ret |-> NoRet, waited |-> 0, log |-> <<>>, ex |-> NoEx]

\* The calls are as g says after this step.
SetSlots(g) ==
  /\ opts' = [s \in Slots |-> g[s].opts]
  /\ reqOpts' = [s \in Slots |-> g[s].reqOpts]
  /\ pc' = [s \in Slots |-> g[s].pc]
  /\ attempt' = [s \in Slots |-> g[s].attempt]
  /\ lastError' = [s \in Slots |-> g[s].lastError]
  /\ ret' = [s \in Slots |-> g[s].ret]
  /\ waited' = [s \in Slots |-> g[s].waited]
  /\ log' = [s \in Slots |-> g[s].log]
  /\ ex' = [s \in Slots |-> g[s].ex]

\* The loop head for attempt n of the call l: run the attempt if
\* n <= maxRetries, else leave the loop and throw lastError.
LoopNext(l, n, last, exNow) ==
  IF n <= client.maxRetries
  THEN [l EXCEPT !.attempt = n, !.pc = "await", !.ex = _executeRequest(l.reqOpts)]
  ELSE [l EXCEPT !.attempt = n, !.pc = "thrown", !.ex = exNow, !.ret = Thrown(last)]

\* makeRequest(url, options) up to its first await, for each slot of S
\* (the calls are made one after the other in the same synchronous run),
\* the other calls being as in g.
StartIn(S, optionsOf, g) ==
  [s \in Slots |->
     IF s \in S
     THEN LoopNext([g[s] EXCEPT !.opts = optionsOf[s],
                                !.reqOpts = RequestOptions(client, optionsOf[s])],
                   1, g[s].lastError, g[s].ex)
     ELSE g[s]]

\* An aborted request's 'error' event is due: it is queued by
\* controller.abort() and runs before any other callback.
AbortErrorDue == \E t \in Slots : ex[t].abortPending

MakeRequestIn(S, optionsOf) ==
  /\ \A s \in S : pc[s] = "idle"
  /\ ~AbortErrorDue
  /\ SetSlots(StartIn(S, optionsOf, Current))

MakeRequest(s, options) == MakeRequestIn({s}, [x \in {s} |-> options])

\* The rest of the loop body of the call l once the awaited attempt has
\* settled with a response (isResp) or an error; exNow is the settled
\* promise.
Resume(l, isResp, response, error, entry, exNow) ==
  LET n == l.attempt
      returns == isResp /\ (response.ok \/ IsClientError(response.status))
      failure == IF isResp THEN HttpError(response) ELSE error
      breaks == ~isResp /\ _isNonRetryableError(error)
      last == NextLastError(l.lastError, failure)
      logged == [l EXCEPT !.log = Append(@, entry)]
  IN IF returns
     THEN [logged EXCEPT !.pc = "returned", !.ret = Returned(response), !.ex = exNow]
     ELSE IF breaks
     THEN [logged EXCEPT !.lastError = last, !.pc = "thrown", !.ret = Thrown(last),
                         !.ex = exNow]
     ELSE IF WaitsAfter(n, client.maxRetries)
     THEN [logged EXCEPT !.lastError = last, !.pc = "backoff",
                         !.waited = @ + BackoffDelay(client.retryDelay, n), !.ex = exNow]
     ELSE LoopNext([logged EXCEPT !.lastError = last], n + 1, last, exNow)

\* One event of the transport or of a timer for the call in slot s:
\*   head: the response callback (the status line and headers arrived):
\*     clearTimeout.
\*   end: res 'end', the promise resolves with the response and makeRequest
\*     resumes.
\*   error: req 'error', clearTimeout, the promise rejects with the
\*     transport error.  Before the response any transport error may occur;
\*     while the body is arriving the connection may be reset.
\*   timeout: the setTimeout callback, controller.abort() and the promise
\*     rejects with Error('Request timeout').  It can only run while the
\*     timer is armed; makeRequest is still at its await when it ends.
\*   aborted: the aborted request's 'error' event (AbortError), the next
\*     callback after the timer's: clearTimeout finds no timer and reject
\*     finds the promise already rejected; then makeRequest resumes in its
\*     catch block with Error('Request timeout').
\*   wake: _sleep(delay) is over, attempt++ and back to the loop head.
EventKinds == {"head", "end", "error", "timeout", "aborted", "wake"}

\* What an event of the kind may bring: a status, a body text, an error name.
Input(status, text, name) == [status |-> status, text |-> text, name |-> name]
Inputs(s, kind) ==
  CASE kind = "head" -> {Input(status, "", "") : status \in Statuses(s)}
    [] kind = "end" -> {Input(0, text, "") : text \in Bodies(s)}
    [] kind = "error" -> {Input(0, "", name) : name \in ErrorNames(s)}
    [] OTHER -> {Input(0, "", "")}

\* The event can happen to the call in slot s now.
CanDeliver(s, kind, in) ==
  LET l == SlotOf(s)
  IN IF kind = "aborted"
     THEN l.pc = "await" /\ l.ex.phase = "settled" /\ l.ex.abortPending
     ELSE /\ ~AbortErrorDue
          /\ CASE kind = "head" -> l.pc = "await" /\ l.ex.phase = "pending"
               [] kind = "end" -> l.pc = "await" /\ l.ex.phase = "receiving"
               [] kind = "error" ->
                    /\ l.pc = "await" /\ l.ex.phase \in {"pending", "receiving"}
                    /\ l.ex.phase = "receiving" => in.name = "ECONNRESET"
               [] kind = "timeout" ->
                    l.pc = "await" /\ l.ex.phase = "pending" /\ l.ex.timer
               [] kind = "wake" -> l.pc = "backoff"

\* The calls after the code run by the event: the handler of
\* _executeRequest and, when the attempt settles, the rest of makeRequest's
\* loop body.
Deliver(s, kind, in) ==
  LET l == SlotOf(s)
      after ==
        CASE kind = "head" ->
               [l EXCEPT !.ex = [l.ex EXCEPT !.phase = "receiving", !.timer = FALSE,
                                             !.status = in.status]]
          [] kind = "end" ->
               Resume(l, TRUE, ResponseOf(l.ex.status, in.text), NoError,
                      LogResponse(l.ex.status),
                      [l.ex EXCEPT !.phase = "settled", !.body = in.text])
          [] kind = "error" ->
               Resume(l, FALSE, NoResponse, SystemError(in.name), LogError(in.name),
                      [l.ex EXCEPT !.phase = "settled", !.timer = FALSE])
          [] kind = "timeout" ->
               [l EXCEPT !.ex = [l.ex EXCEPT !.phase = "settled", !.timer = FALSE,
                                             !.aborted = TRUE, !.abortPending = TRUE]]
          [] kind = "aborted" ->
               Resume(l, FALSE, NoResponse, TimeoutError, LogTimeout,
                      [l.ex EXCEPT !.abortPending = FALSE])
          [] kind = "wake" -> LoopNext(l, l.attempt + 1, l.lastError, l.ex)
  IN [Current EXCEPT ![s] = after]

\* The events when nothing but makeRequest awaits the call.
Happens(s, kind) ==
  \E in \in Inputs(s, kind) : CanDeliver(s, kind, in) /\ SetSlots(Deliver(s, kind, in))
ResponseHead(s) == Happens(s, "head")
ResponseEnd(s) == Happens(s, "end")
TransportError(s) == Happens(s, "error")
Timeout(s) == Happens(s, "timeout")
AbortedRequestError(s) == Happens(s, "aborted")
Wake(s) == Happens(s, "wake")

\* ------------------------------------------------ derived operations
\* response.data?.key: undefined unless data is an object owning the key.
PropOf(data, key) ==
  IF data.t = "object" /\ Has(data.o, key) THEN data.o[key] ELSE JUndef

Pending(value) == [status |-> "pending", value |-> value, error |-> NoError]
Fulfilled(value) == [status |-> "fulfilled", value |-> value, error |-> NoError]
Rejected(value, error) == [status |-> "rejected", value |-> value, error |-> error]

NoTMC ==
  [teleManasCells |-> JUndef, mentoringInstitutes |-> JUndef,
   regionalCoordinatingCenters |-> JUndef]

\* Mutant: the response is used without looking at response.ok.
getCallCount_unchecked(state, r) ==
  CASE state \notin {"returned", "thrown"} -> Pending(JUndef)
    [] state = "thrown" -> Rejected(JUndef, r.error)
    [] OTHER -> Fulfilled(OrElse(PropOf(r.response.data, "Total_Calls"), JStr("0")))

\* getCallCount() after its await: state and r are the state and the outcome
\* of its makeRequest call.
getCallCount(state, r) ==
  CASE state \notin {"returned", "thrown"} -> Pending(JUndef)
    [] state = "thrown" -> Rejected(JUndef, r.error)
    [] r.response.ok ->
         Fulfilled(OrElse(PropOf(r.response.data, "Total_Calls"), JStr("0")))
    [] OTHER ->
         Rejected(JUndef, Err("", "Failed to get call count: " \o ToString(r.response.status)))

\* getTMCData() after its await.
getTMCData(state, r) ==
  CASE state \notin {"returned", "thrown"} -> Pending(NoTMC)
    [] state = "thrown" -> Rejected(NoTMC, r.error)
    [] r.response.ok ->
         Fulfilled([teleManasCells |-> OrElse(PropOf(r.response.data, "TMC"), JStr("0")),
                    mentoringInstitutes |-> OrElse(PropOf(r.response.data, "MI"), JStr("0")),
                    regionalCoordinatingCenters |->
                      OrElse(PropOf(r.response.data, "RCC"), JStr("0"))])
    [] OTHER ->
         Rejected(NoTMC, Err("", "Failed to get TMC data: " \o ToString(r.response.status)))

NoSub == [cc |-> [status |-> "none", value |-> JUndef, error |-> NoError],
          tmc |-> [status |-> "none", value |-> NoTMC, error |-> NoError]]

NoSnapshot ==
  [totalCalls |-> JUndef, teleManasCells |-> JUndef, mentoringInstitutes |-> JUndef,
   regionalCoordinatingCenters |-> JUndef]

NoAll == [status |-> "idle", value |-> NoSnapshot, error |-> NoError]

\* Mutant: Promise.all, which rejects as soon as one of the two rejects.
allSettled_all(p1, p2) ==
  CASE p1.status = "rejected" -> "rejected"
    [] p2.status = "rejected" -> "rejected"
    [] p1.status = "fulfilled" /\ p2.status = "fulfilled" -> "fulfilled"
    [] OTHER -> "pending"

\* Promise.allSettled([p1, p2]): fulfilled once both have settled, never rejected.
allSettled(p1, p2) ==
  IF p1.status \in {"fulfilled", "rejected"} /\ p2.status \in {"fulfilled", "rejected"}
  THEN "fulfilled" ELSE "pending"

\* Mutant: the fields of getTMCData are taken only when getCallCount
\* succeeded as well.
getAllData_coupled(totalCalls, tmcData) ==
  LET joined == allSettled(totalCalls, tmcData)
      both == totalCalls.status = "fulfilled" /\ tmcData.status = "fulfilled"
  IN CASE joined = "pending" -> [status |-> "pending", value |-> NoSnapshot, error |-> NoError]
       [] joined = "rejected" ->
            [status |-> "rejected", value |-> NoSnapshot,
             error |-> IF totalCalls.status = "rejected" THEN totalCalls.error
                       ELSE tmcData.error]
       [] OTHER ->
            [status |-> "fulfilled",
             value |->
               [totalCalls |-> IF totalCalls.status = "fulfilled" THEN totalCalls.value
                               ELSE JStr("0"),
                teleManasCells |-> IF both THEN tmcData.value.teleManasCells ELSE JStr("0"),
                mentoringInstitutes |-> IF both THEN tmcData.value.mentoringInstitutes
                                        ELSE JStr("0"),
                regionalCoordinatingCenters |->
                  IF both THEN tmcData.value.regionalCoordinatingCenters ELSE JStr("0")],
             error |-> NoError]

\* getAllData() after its await of the two sub-calls.
getAllData(totalCalls, tmcData) ==
  LET joined == allSettled(totalCalls, tmcData)
  IN CASE joined = "pending" -> [status |-> "pending", value |-> NoSnapshot, error |-> NoError]
       [] joined = "rejected" ->
            [status |-> "rejected", value |-> NoSnapshot,
             error |-> IF totalCalls.status = "rejected" THEN totalCalls.error
                       ELSE tmcData.error]
       [] OTHER ->
            [status |-> "fulfilled",
             value |->
               [totalCalls |-> IF totalCalls.status = "fulfilled" THEN totalCalls.value
                               ELSE JStr("0"),
                teleManasCells |-> IF tmcData.status = "fulfilled"
                                   THEN tmcData.value.teleManasCells ELSE JStr("0"),
                mentoringInstitutes |-> IF tmcData.status = "fulfilled"
                                        THEN tmcData.value.mentoringInstitutes ELSE JStr("0"),
                regionalCoordinatingCenters |->
                  IF tmcData.status = "fulfilled"
                  THEN tmcData.value.regionalCoordinatingCenters ELSE JStr("0")],
             error |-> NoError]

\* The promise reactions that run once a makeRequest call of getAllData has
\* finished: the sub-call settles and, when both have, getAllData resumes.
\* An already settled getAllData stays as it is.
Reactions ==
  /\ sub' = [cc |-> getCallCount(pc'["cc"], ret'["cc"]),
             tmc |-> getTMCData(pc'["tmc"], ret'["tmc"])]
  /\ all' = IF all.status \in {"fulfilled", "rejected"} THEN all
            ELSE getAllData(getCallCount(pc'["cc"], ret'["cc"]),
                            getTMCData(pc'["tmc"], ret'["tmc"]))

\* ------------------------------------------------ _extractDataFromHTML
\* A document is a sequence of characters.  The fragments documents are
\* built from:
\* <script>{"Total_Calls":"42","TMC":"3"}</script>
FragScriptJson ==
  <<"<", "s", "c", "r", "i", "p", "t", ">", "{", "\"", "T", "o", "t", "a", "l", "_", "C",
    "a", "l", "l", "s", "\"", ":", "\"", "4", "2", "\"", ",", "\"", "T", "M", "C", "\"",
    ":", "\"", "3", "\"", "}", "<", "/", "s", "c", "r", "i", "p", "t", ">">>

\* Total Calls: 1,234
FragPlainText ==
  <<"T", "o", "t", "a", "l", " ", "C", "a", "l", "l", "s", ":", " ", "1", ",", "2", "3", "4">>

\* <b id="Total">1,234</b>
FragTotalTag ==
  <<"<", "b", " ", "i", "d", "=", "\"", "T", "o", "t", "a", "l", "\"", ">", "1", ",", "2",
    "3", "4", "<", "/", "b", ">">>

\* <i class="calls">77</i>
FragCallsTag ==
  <<"<", "i", " ", "c", "l", "a", "s", "s", "=", "\"", "c", "a", "l", "l", "s", "\"", ">",
    "7", "7", "<", "/", "i", ">">>

\* <script>{"Total_Calls":oops}</script>
FragScriptBad ==
  <<"<", "s", "c", "r", "i", "p", "t", ">", "{", "\"", "T", "o", "t", "a", "l", "_", "C",
    "a", "l", "l", "s", "\"", ":", "o", "o", "p", "s", "}", "<", "/", "s", "c", "r", "i",
    "p", "t", ">">>

\* <script>{"Total_Calls":"500"}</script>
FragScript500 ==
  <<"<", "s", "c", "r", "i", "p", "t", ">", "{", "\"", "T", "o", "t", "a", "l", "_", "C",
    "a", "l", "l", "s", "\"", ":", "\"", "5", "0", "0", "\"", "}", "<", "/", "s", "c", "r",
    "i", "p", "t", ">">>

\* <script>{"Total_Calls":"N/A","MI":7}</script>
FragScriptOdd ==
  <<"<", "s", "c", "r", "i", "p", "t", ">", "{", "\"", "T", "o", "t", "a", "l", "_", "C",
    "a", "l", "l", "s", "\"", ":", "\"", "N", "/", "A", "\"", ",", "\"", "M", "I", "\"",
    ":", "7", "}", "<", "/", "s", "c", "r", "i", "p", "t", ">">>

\* <u>RCC</u><u>5</u>
FragLabelOnly ==
  <<"<", "u", ">", "R", "C", "C", "<", "/", "u", ">", "<", "u", ">", "5", "<", "/", "u", ">">>

\* <script>{"Total_Calls":"9","TMC":"","MI":false}</script>
FragScriptFalsy ==
  <<"<", "s", "c", "r", "i", "p", "t", ">", "{", "\"", "T", "o", "t", "a", "l", "_", "C",
    "a", "l", "l", "s", "\"", ":", "\"", "9", "\"", ",", "\"", "T", "M", "C", "\"", ":",
    "\"", "\"", ",", "\"", "M", "I", "\"", ":", "f", "a", "l", "s", "e", "}", "<", "/",
    "s", "c", "r", "i", "p", "t", ">">>

\* <script>{"Total_Calls":"5","MI":tRUE}</script>
FragScriptCase ==
  <<"<", "s", "c", "r", "i", "p", "t", ">", "{", "\"", "T", "o", "t", "a", "l", "_", "C",
    "a", "l", "l", "s", "\"", ":", "\"", "5", "\"", ",", "\"", "M", "I", "\"", ":", "t",
    "R", "U", "E", "}", "<", "/", "s", "c", "r", "i", "p", "t", ">">>

\* <script>{<LF>"Total_Calls":<TAB>"5"<CR><LF>}</script>: white space between
\* the tokens.
FragScriptLines ==
  <<"<", "s", "c", "r", "i", "p", "t", ">", "{", "\n", "\"", "T", "o", "t", "a", "l",
    "_", "C", "a", "l", "l", "s", "\"", ":", "\t", "\"", "5", "\"", "\r", "\n", "}", "<",
    "/", "s", "c", "r", "i", "p", "t", ">">>

\* <script>{"Total_Calls":"a<TAB>b"}</script>: a raw control character inside
\* a string.
FragScriptTab ==
  <<"<", "s", "c", "r", "i", "p", "t", ">", "{", "\"", "T", "o", "t", "a", "l", "_", "C",
    "a", "l", "l", "s", "\"", ":", "\"", "a", "\t", "b", "\"", "}", "<", "/", "s", "c",
    "r", "i", "p", "t", ">">>

\* <script>{"Total_Calls":"6\n","TMC":"\"8\""}</script>: escape sequences.
FragScriptEscape ==
  <<"<", "s", "c", "r", "i", "p", "t", ">", "{", "\"", "T", "o", "t", "a", "l", "_", "C",
    "a", "l", "l", "s", "\"", ":", "\"", "6", "\\", "n", "\"", ",", "\"", "T", "M", "C",
    "\"", ":", "\"", "\\", "\"", "8", "\\", "\"", "\"", "}", "<", "/", "s", "c", "r",
    "i", "p", "t", ">">>

\* <script>{"Total_Calls":"4<U+000B>2"}</script>: a raw control character
\* that no escape of this module's literals stands for, inside a string.
FragScriptControl ==
  <<"<", "s", "c", "r", "i", "p", "t", ">", "{", "\"", "T", "o", "t", "a", "l", "_", "C",
    "a", "l", "l", "s", "\"", ":", "\"", "4", "\\u000b", "2", "\"", "}", "<", "/", "s", "c",
    "r", "i", "p", "t", ">">>

\* <script>{"Total_Calls":-5,"TMC":1.5,"MI":[1,2],"RCC":1e3}</script>:
\* numbers with a sign, a fraction and an exponent, and an array.
FragScriptNumbers ==
  <<"<", "s", "c", "r", "i", "p", "t", ">", "{", "\"", "T", "o", "t", "a", "l", "_", "C",
    "a", "l", "l", "s", "\"", ":", "-", "5", ",", "\"", "T", "M", "C", "\"", ":", "1", ".",
    "5", ",", "\"", "M", "I", "\"", ":", "[", "1", ",", "2", "]", ",", "\"", "R", "C", "C",
    "\"", ":", "1", "e", "3", "}", "<", "/", "s", "c", "r", "i", "p", "t", ">">>

\* <script>{"Total_Calls":"\u0034\u0032","TMC":"\b"}</script>: the escapes
\* \uXXXX and \b.
FragScriptUnicode ==
  <<"<", "s", "c", "r", "i", "p", "t", ">", "{", "\"", "T", "o", "t", "a", "l", "_", "C",
    "a", "l", "l", "s", "\"", ":", "\"", "\\", "u", "0", "0", "3", "4", "\\", "u", "0", "0",
    "3", "2", "\"", ",", "\"", "T", "M", "C", "\"", ":", "\"", "\\", "b", "\"", "}", "<",
    "/", "s", "c", "r", "i", "p", "t", ">">>

\* <script>{"Total_Calls":01}</script>: a number JSON does not allow.
FragScriptLeadingZero ==
  <<"<", "s", "c", "r", "i", "p", "t", ">", "{", "\"", "T", "o", "t", "a", "l", "_", "C",
    "a", "l", "l", "s", "\"", ":", "0", "1", "}", "<", "/", "s", "c", "r", "i", "p", "t",
    ">">>

Fragments ==
  {FragScriptJson, FragPlainText, FragTotalTag, FragCallsTag,
   FragScriptBad, FragScript500, FragScriptOdd, FragLabelOnly,
   FragScriptFalsy, FragScriptCase, FragScriptLines, FragScriptTab,
   FragScriptEscape, FragScriptControl, FragScriptNumbers, FragScriptUnicode,
   FragScriptLeadingZero}

\* The i flag: letters compare by their lower-case form.
Lower(c) ==
  CASE c = "A" -> "a"
    [] c = "B" -> "b"
    [] c = "C" -> "c"
    [] c = "D" -> "d"
    [] c = "E" -> "e"
    [] c = "F" -> "f"
    [] c = "G" -> "g"
    [] c = "H" -> "h"
    [] c = "I" -> "i"
    [] c = "J" -> "j"
    [] c = "K" -> "k"
    [] c = "L" -> "l"
    [] c = "M" -> "m"
    [] c = "N" -> "n"
    [] c = "O" -> "o"
    [] c = "P" -> "p"
    [] c = "Q" -> "q"
    [] c = "R" -> "r"
    [] c = "S" -> "s"
    [] c = "T" -> "t"
    [] c = "U" -> "u"
    [] c = "V" -> "v"
    [] c = "W" -> "w"
    [] c = "X" -> "x"
    [] c = "Y" -> "y"
    [] c = "Z" -> "z"
    [] OTHER -> c

MinOf(S) == CHOOSE x \in S : \A y \in S : x <= y

\* The literal lit occurs in d at position i, ignoring case.
LitAt(d, i, lit) ==
  /\ i >= 1 /\ i + Len(lit) - 1 <= Len(d)
  /\ \A j \in 1..Len(lit) : Lower(d[i + j - 1]) = Lower(lit[j])

\* Position of the first character c at or after from, 0 if there is none.
IndexOf(d, from, c) ==
  LET S == {j \in from..Len(d) : d[j] = c}
  IN IF S = {} THEN 0 ELSE MinOf(S)

\* Position of the first occurrence of lit at or after from, 0 if none.
IndexOfLit(d, from, lit) ==
  LET S == {j \in from..Len(d) : LitAt(d, j, lit)}
  IN IF S = {} THEN 0 ELSE MinOf(S)

OpenScript == <<"<", "s", "c", "r", "i", "p", "t">>
CloseScript == <<"<", "/", "s", "c", "r", "i", "p", "t", ">">>
TotalCallsKey ==
  <<"\"", "T", "o", "t", "a", "l", "_", "C", "a", "l", "l", "s", "\"">>

\* {[^}]*"Total_Calls"[^}]*} matched at position k: the position of its
\* closing brace (the first } after k), 0 if it does not match at k.
GroupEnd(d, k) ==
  IF k < 1 \/ k > Len(d) \/ d[k] # "{" THEN 0
  ELSE LET e == IndexOf(d, k + 1, "}")
       IN IF e # 0 /\ \E t \in (k + 1)..(e - Len(TotalCallsKey)) : LitAt(d, t, TotalCallsKey)
          THEN e ELSE 0

\* /<script[^>]*>[\s\S]*?({[^}]*"Total_Calls"[^}]*})[\s\S]*?<\/script>/i
\* matched at position i: the position of the last character of the match,
\* 0 if it does not match at i.
ScriptMatchEnd(d, i) ==
  IF ~LitAt(d, i, OpenScript) THEN 0
  ELSE LET g == IndexOf(d, i + Len(OpenScript), ">")
           K == {k \in (g + 1)..Len(d) :
                   /\ GroupEnd(d, k) # 0
                   /\ IndexOfLit(d, GroupEnd(d, k) + 1, CloseScript) # 0}
       IN IF g = 0 \/ K = {} THEN 0
          ELSE IndexOfLit(d, GroupEnd(d, MinOf(K)) + 1, CloseScript) + Len(CloseScript) - 1

\* html.match(/.../gi): the matched texts, left to right, not overlapping.
RECURSIVE ScriptMatches(_, _)
ScriptMatches(d, from) ==
  LET S == {i \in from..Len(d) : ScriptMatchEnd(d, i) # 0}
  IN IF S = {} THEN <<>>
     ELSE <<SubSeq(d, MinOf(S), ScriptMatchEnd(d, MinOf(S)))>>
            \o ScriptMatches(d, ScriptMatchEnd(d, MinOf(S)) + 1)

\* match.match(/{[^}]*"Total_Calls"[^}]*}/i)?.[0]: the leftmost occurrence,
\* <<>> if there is none.
JsonStrOf(m) ==
  LET K == {k \in 1..Len(m) : GroupEnd(m, k) # 0}
  IN IF K = {} THEN <<>> ELSE SubSeq(m, MinOf(K), GroupEnd(m, MinOf(K)))

\* The characters of cs as one string.
RECURSIVE Join(_)
Join(cs) == IF cs = <<>> THEN "" ELSE Head(cs) \o Join(Tail(cs))

Digits == {"0", "1", "2", "3", "4", "5", "6", "7", "8", "9"}

DigitValue(c) ==
  CASE c = "0" -> 0 [] c = "1" -> 1 [] c = "2" -> 2 [] c = "3" -> 3 [] c = "4" -> 4
    [] c = "5" -> 5 [] c = "6" -> 6 [] c = "7" -> 7 [] c = "8" -> 8 [] c = "9" -> 9

RECURSIVE NumberOf(_)
NumberOf(cs) ==
  IF cs = <<>> THEN 0 ELSE 10 * NumberOf(SubSeq(cs, 1, Len(cs) - 1)) + DigitValue(cs[Len(cs)])

\* The characters U+0020 to U+007E in order.  A character is a string of
\* length one; a code unit that a string literal of this module does not hold
\* (the control characters other than tab, line feed, form feed and carriage
\* return, the backquote, and everything above U+007F) is written as its
\* escape, a backslash, u and four lower-case hexadecimal digits.
Printable ==
  <<" ", "!", "\"", "#", "$", "%", "&", "'", "(", ")", "*", "+", ",", "-", ".", "/",
    "0", "1", "2", "3", "4", "5", "6", "7", "8", "9", ":", ";", "<", "=", ">", "?",
    "@", "A", "B", "C", "D", "E", "F", "G", "H", "I", "J", "K", "L", "M", "N", "O",
    "P", "Q", "R", "S", "T", "U", "V", "W", "X", "Y", "Z", "[", "\\", "]", "^", "_",
    "\\u0060", "a", "b", "c", "d", "e", "f", "g", "h", "i", "j", "k", "l", "m", "n", "o",
    "p", "q", "r", "s", "t", "u", "v", "w", "x", "y", "z", "{", "|", "}", "~">>

\* U+007F, the one character below U+0080 and outside Printable that JSON
\* takes for no control character.
Delete == ""

HexDigits ==
  <<"0", "1", "2", "3", "4", "5", "6", "7", "8", "9", "a", "b", "c", "d", "e", "f">>

\* The value of a hexadecimal digit of either case, -1 for another character.
HexValue(c) ==
  CASE c \in Digits -> DigitValue(c)
    [] c \in {"a", "A"} -> 10 [] c \in {"b", "B"} -> 11 [] c \in {"c", "C"} -> 12
    [] c \in {"d", "D"} -> 13 [] c \in {"e", "E"} -> 14 [] c \in {"f", "F"} -> 15
    [] OTHER -> -1

\* The character with code unit n, 0 <= n < 65536.
CodeUnit(n) ==
  CASE n = 9 -> "\t" [] n = 10 -> "\n" [] n = 12 -> "\f" [] n = 13 -> "\r"
    [] n \in 32..126 -> Printable[n - 31]
    [] n = 127 -> Delete
    [] OTHER -> "\\u" \o HexDigits[(n \div 4096) + 1] \o HexDigits[((n \div 256) % 16) + 1]
                      \o HexDigits[((n \div 16) % 16) + 1] \o HexDigits[(n % 16) + 1]

\* JSON's white space: space, tab, line feed and carriage return.
JsonWhitespace == {" ", "\t", "\n", "\r"}

\* The character is one of U+0000 to U+001F, which a JSON string may not
\* hold unescaped: a single character that is not printable, or the written
\* form of a control character.
PrintableChars == {Printable[n] : n \in 1..Len(Printable)}
ControlEscapes == {CodeUnit(n) : n \in 0..31}
IsControl(c) ==
  IF Len(c) = 1 THEN c \notin PrintableChars \cup {Delete} ELSE c \in ControlEscapes

\* First position at or after i that holds no white space (Len(s) + 1 if
\* none).
RECURSIVE SkipWs(_, _)
SkipWs(s, i) == IF i <= Len(s) /\ s[i] \in JsonWhitespace THEN SkipWs(s, i + 1) ELSE i

\* End of the digit run that starts at i (i - 1 if s[i] is no digit).
RECURSIVE RunEnd(_, _, _)
RunEnd(s, i, class) ==
  IF i <= Len(s) /\ s[i] \in class THEN RunEnd(s, i + 1, class) ELSE i - 1

JBool(b) == [t |-> "boolean", s |-> "", n |-> IF b THEN 1 ELSE 0]
\* A number that is no integer of this module (a fraction, or too large),
\* kept as the text String() gives for it.
JNumText(text) == [t |-> "number", s |-> text, n |-> 0]
\* An array, kept as the text String() gives for it.
JArr(text) == [t |-> "array", s |-> text, n |-> 0]
ParseFail == [ok |-> FALSE, value |-> JUndef, next |-> 0]

\* String(v) for the values JSON.parse yields.
String(v) ==
  CASE v.t = "string" -> v.s
    [] v.t = "number" -> IF v.s # "" THEN v.s ELSE ToString(v.n)
    [] v.t = "boolean" -> IF v.n # 0 THEN "true" ELSE "false"
    [] v.t = "array" -> v.s
    [] v.t = "null" -> "null"
    [] OTHER -> "undefined"

\* The character a two-character escape sequence stands for.
EscapeChars == {"\"", "\\", "/", "b", "f", "n", "r", "t"}
Unescape(c) ==
  CASE c = "b" -> CodeUnit(8) [] c = "f" -> "\f" [] c = "n" -> "\n" [] c = "r" -> "\r"
    [] c = "t" -> "\t" [] OTHER -> c

\* s holds four hexadecimal digits from position j on.
HexAt(s, j) == j + 3 <= Len(s) /\ \A t \in j..(j + 3) : HexValue(s[t]) >= 0
HexOf(s, j) ==
  4096 * HexValue(s[j]) + 256 * HexValue(s[j + 1]) + 16 * HexValue(s[j + 2])
    + HexValue(s[j + 3])

\* The rest of a JSON string from position j on, acc being the characters
\* read so far: it ends at the first unescaped quote; a raw control
\* character, an unknown escape or the end of the text is a SyntaxError.
RECURSIVE StringFrom(_, _, _)
StringFrom(s, j, acc) ==
  IF j > Len(s) THEN ParseFail
  ELSE IF IsControl(s[j]) THEN ParseFail
  ELSE IF s[j] = "\"" THEN [ok |-> TRUE, value |-> JStr(Join(acc)), next |-> j + 1]
  ELSE IF s[j] # "\\" THEN StringFrom(s, j + 1, Append(acc, s[j]))
  ELSE IF j + 1 > Len(s) THEN ParseFail
  ELSE IF s[j + 1] \in EscapeChars
       THEN StringFrom(s, j + 2, Append(acc, Unescape(s[j + 1])))
  ELSE IF s[j + 1] = "u" /\ HexAt(s, j + 2)
       THEN StringFrom(s, j + 6, Append(acc, CodeUnit(HexOf(s, j + 2))))
  ELSE ParseFail

\* A JSON string starting at i.
ParseString(s, i) ==
  IF i > Len(s) \/ s[i] # "\"" THEN ParseFail ELSE StringFrom(s, i + 1, <<>>)

\* The word lit occurs in s at position i, letter for letter: JSON's
\* literals are lower case only.
WordAt(s, i, lit) ==
  /\ i >= 1 /\ i + Len(lit) - 1 <= Len(s)
  /\ SubSeq(s, i, i + Len(lit) - 1) = lit

\* ---- numbers
\* 2^53: a double holds every integer up to it.
MaxSafeInteger ==
  <<"9", "0", "0", "7", "1", "9", "9", "2", "5", "4", "7", "4", "0", "9", "9", "2">>

RECURSIVE Zeros(_)
Zeros(n) == IF n <= 0 THEN "" ELSE "0" \o Zeros(n - 1)
RECURSIVE ZeroSeq(_)
ZeroSeq(n) == IF n <= 0 THEN <<>> ELSE <<"0">> \o ZeroSeq(n - 1)
RECURSIVE Power10(_)
Power10(n) == IF n <= 0 THEN 1 ELSE 10 * Power10(n - 1)

\* cs without its leading zeros, and without its trailing zeros.
RECURSIVE StripLeading(_)
StripLeading(cs) == IF cs # <<>> /\ Head(cs) = "0" THEN StripLeading(Tail(cs)) ELSE cs
RECURSIVE StripTrailing(_)
StripTrailing(cs) ==
  IF cs # <<>> /\ cs[Len(cs)] = "0" THEN StripTrailing(SubSeq(cs, 1, Len(cs) - 1)) ELSE cs

\* a <= b for two digit sequences of the same length.
RECURSIVE DigitsLeq(_, _)
DigitsLeq(a, b) ==
  IF a = <<>> THEN TRUE
  ELSE IF Head(a) # Head(b) THEN DigitValue(Head(a)) < DigitValue(Head(b))
  ELSE DigitsLeq(Tail(a), Tail(b))

\* The value of the digits of an exponent; one of more than four digits is
\* beyond every limit of a double and counts as 10000.
ExponentOf(cs) ==
  IF Len(StripLeading(cs)) > 4 THEN 10000 ELSE NumberOf(StripLeading(cs))

\* Number::toString for the number 0.d1d2...dk * 10^n, digits == <<d1..dk>>
\* with d1 and dk not 0.
NumberText(neg, digits, n) ==
  LET k == Len(digits)
      body ==
        IF k <= n /\ n <= 21 THEN Join(digits) \o Zeros(n - k)
        ELSE IF 0 < n /\ n <= 21
        THEN Join(SubSeq(digits, 1, n)) \o "." \o Join(SubSeq(digits, n + 1, k))
        ELSE IF -6 < n /\ n <= 0 THEN "0." \o Zeros(-n) \o Join(digits)
        ELSE Join(SubSeq(digits, 1, 1))
               \o (IF k > 1 THEN "." \o Join(SubSeq(digits, 2, k)) ELSE "")
               \o "e" \o (IF n > 1 THEN "+" \o ToString(n - 1) ELSE "-" \o ToString(1 - n))
  IN (IF neg THEN "-" ELSE "") \o body

\* The number with the given sign, the digits before and after the decimal
\* point and the exponent, 0.d1...dk * 10^n: the double nearest to it.  It
\* is Infinity from 10^309 on and 0 under 10^-324.  A double holds 15
\* significant decimal digits exactly when n lies in -306..308, and every
\* integer up to 2^53; there its String() is computed from the digits.  The
\* rounding of a number of more digits is not computed.
NumberValue(neg, int, frac, exp) ==
  LET digits == StripTrailing(StripLeading(int \o frac))
      k == Len(digits)
      n == Len(StripLeading(int \o frac)) + exp - Len(frac)
  IN CASE k = 0 -> JNum(0)
       [] k > 0 /\ n > 309 -> JNumText(IF neg THEN "-Infinity" ELSE "Infinity")
       [] k > 0 /\ n < -324 -> JNum(0)
       [] k > 0 /\ k <= n /\ n <= 9 ->
            JNum((IF neg THEN -1 ELSE 1) * NumberOf(digits) * Power10(n - k))
       [] k > 0 /\ k <= 15 /\ n \in (-306)..308 /\ ~(k <= n /\ n <= 9) ->
            JNumText(NumberText(neg, digits, n))
       [] k = 16 /\ n = 16 /\ DigitsLeq(digits, MaxSafeInteger) ->
            JNumText(NumberText(neg, digits, n))

\* A JSON number starting at i: -? (0 | [1-9][0-9]*) (. [0-9]+)? ([eE] [+-]? [0-9]+)?
ParseNumber(s, i) ==
  LET neg == s[i] = "-"
      a == IF neg THEN i + 1 ELSE i
      intEnd == RunEnd(s, a, Digits)
      hasFrac == intEnd + 1 <= Len(s) /\ s[intEnd + 1] = "."
      fracEnd == IF hasFrac THEN RunEnd(s, intEnd + 2, Digits) ELSE intEnd
      hasExp == fracEnd + 1 <= Len(s) /\ s[fracEnd + 1] \in {"e", "E"}
      hasSign == hasExp /\ fracEnd + 2 <= Len(s) /\ s[fracEnd + 2] \in {"+", "-"}
      expFrom == IF hasSign THEN fracEnd + 3 ELSE fracEnd + 2
      expEnd == IF hasExp THEN RunEnd(s, expFrom, Digits) ELSE fracEnd
      exp == IF ~hasExp THEN 0
             ELSE IF hasSign /\ s[fracEnd + 2] = "-"
             THEN -ExponentOf(SubSeq(s, expFrom, expEnd))
             ELSE ExponentOf(SubSeq(s, expFrom, expEnd))
  IN IF intEnd < a THEN ParseFail
     ELSE IF s[a] = "0" /\ intEnd > a THEN ParseFail
     ELSE IF hasFrac /\ fracEnd < intEnd + 2 THEN ParseFail
     ELSE IF hasExp /\ expEnd < expFrom THEN ParseFail
     ELSE [ok |-> TRUE,
           value |-> NumberValue(neg, SubSeq(s, a, intEnd),
                                 IF hasFrac THEN SubSeq(s, intEnd + 2, fracEnd) ELSE <<>>,
                                 exp),
           next |-> expEnd + 1]

\* ---- values
\* Array.prototype.join: null counts as the empty text.
ElementText(v) == IF v.t \in {"null", "undefined"} THEN "" ELSE String(v)
RECURSIVE JoinComma(_)
JoinComma(texts) ==
  IF texts = <<>> THEN ""
  ELSE IF Len(texts) = 1 THEN Head(texts)
  ELSE Head(texts) \o "," \o JoinComma(Tail(texts))

\* A JSON value starting at i: a string, a number, an array, true, false
\* or null.  An object inside the object cannot parse, because the text
\* jsonStr ends at its first closing brace.
RECURSIVE ParseValue(_, _)
RECURSIVE ParseElements(_, _, _)
RECURSIVE AfterElement(_, _, _)
ParseValue(s, i) ==
  CASE i > Len(s) -> ParseFail
    [] i <= Len(s) /\ s[i] = "\"" -> ParseString(s, i)
    [] i <= Len(s) /\ s[i] \in Digits \cup {"-"} -> ParseNumber(s, i)
    [] i <= Len(s) /\ s[i] = "[" ->
         IF SkipWs(s, i + 1) <= Len(s) /\ s[SkipWs(s, i + 1)] = "]"
         THEN [ok |-> TRUE, value |-> JArr(""), next |-> SkipWs(s, i + 1) + 1]
         ELSE ParseElements(s, SkipWs(s, i + 1), <<>>)
    [] WordAt(s, i, <<"n", "u", "l", "l">>) ->
         [ok |-> TRUE, value |-> JNull, next |-> i + 4]
    [] WordAt(s, i, <<"t", "r", "u", "e">>) ->
         [ok |-> TRUE, value |-> JBool(TRUE), next |-> i + 4]
    [] WordAt(s, i, <<"f", "a", "l", "s", "e">>) ->
         [ok |-> TRUE, value |-> JBool(FALSE), next |-> i + 5]
    [] OTHER -> ParseFail

\* The elements of an array from position i on, texts being the texts of
\* the elements read so far.
ParseElements(s, i, texts) == AfterElement(s, ParseValue(s, i), texts)

\* What follows the element val: the closing bracket, or a comma and the
\* next element.
AfterElement(s, val, texts) ==
  IF ~val.ok \/ SkipWs(s, val.next) > Len(s) THEN ParseFail
  ELSE IF s[SkipWs(s, val.next)] = "]"
  THEN [ok |-> TRUE, value |-> JArr(JoinComma(Append(texts, ElementText(val.value)))),
        next |-> SkipWs(s, val.next) + 1]
  ELSE IF s[SkipWs(s, val.next)] = ","
  THEN ParseElements(s, SkipWs(s, SkipWs(s, val.next) + 1),
                     Append(texts, ElementText(val.value)))
  ELSE ParseFail

\* The members of an object from position i on, added to obj; the closing
\* brace must be the last character.
ObjectFail == [ok |-> FALSE, value |-> EmptyObj]
RECURSIVE ParseMembers(_, _, _)
RECURSIVE AfterKey(_, _, _)
RECURSIVE AfterMember(_, _, _, _)
ParseMembers(s, i, obj) == AfterKey(s, ParseString(s, i), obj)

\* What follows the key of a member: the colon and the value.
AfterKey(s, key, obj) ==
  IF ~key.ok \/ SkipWs(s, key.next) > Len(s) \/ s[SkipWs(s, key.next)] # ":"
  THEN ObjectFail
  ELSE AfterMember(s, ParseValue(s, SkipWs(s, SkipWs(s, key.next) + 1)),
                   key.value.s, obj)

\* What follows the value val of the member called name: the closing brace,
\* or a comma and the next member.
AfterMember(s, val, name, obj) ==
  IF ~val.ok \/ SkipWs(s, val.next) > Len(s) THEN ObjectFail
  ELSE IF s[SkipWs(s, val.next)] = "}"
  THEN [ok |-> SkipWs(s, val.next) = Len(s),
        value |-> Spread(obj, [k \in {name} |-> val.value])]
  ELSE IF s[SkipWs(s, val.next)] = ","
  THEN ParseMembers(s, SkipWs(s, SkipWs(s, val.next) + 1),
                    Spread(obj, [k \in {name} |-> val.value]))
  ELSE ObjectFail

\* JSON.parse(jsonStr) for a text that starts with {: ok = FALSE where it
\* throws.
JSONParseObject(s) ==
  IF Len(s) < 2 \/ s[1] # "{" THEN ObjectFail
  ELSE IF SkipWs(s, 2) = Len(s) /\ s[Len(s)] = "}" THEN [ok |-> TRUE, value |-> EmptyObj]
  ELSE ParseMembers(s, SkipWs(s, 2), EmptyObj)

_getZeroData ==
  [totalCalls |-> JStr("0"), teleManasCells |-> JStr("0"),
   mentoringInstitutes |-> JStr("0"), regionalCoordinatingCenters |-> JStr("0")]

\* The four "if (data.X) extractedData.field = String(data.X)" statements.
JsonFields ==
  <<[key |-> "Total_Calls", field |-> "totalCalls"],
    [key |-> "TMC", field |-> "teleManasCells"],
    [key |-> "MI", field |-> "mentoringInstitutes"],
    [key |-> "RCC", field |-> "regionalCoordinatingCenters"]>>

RECURSIVE AssignJson(_, _, _)
AssignJson(acc, data, n) ==
  IF n > Len(JsonFields) THEN acc
  ELSE LET v == PropOf(DObj(data), JsonFields[n].key)
       IN AssignJson(IF Truthy(v) THEN [acc EXCEPT ![JsonFields[n].field] = JStr(String(v))]
                     ELSE acc, data, n + 1)

\* The fields after the four statements on the parsed data; a text that
\* does not parse throws before the first of them.  (The mutant resets the
\* fields then.)
AssignParsed_reset(acc, parsed) ==
  IF parsed.ok THEN AssignJson(acc, parsed.value, 1) ELSE _getZeroData
AssignParsed(acc, parsed) ==
  IF parsed.ok THEN AssignJson(acc, parsed.value, 1) ELSE acc

\* One script match: "if (jsonStr) try { JSON.parse ... } catch { continue }".
AfterScript(acc, jsonStr) ==
  IF jsonStr = <<>> THEN acc ELSE AssignParsed(acc, JSONParseObject(jsonStr))

\* Strategy 1: every script match in turn; one whose JSON text does not
\* parse is skipped.
RECURSIVE Strategy1(_, _)
Strategy1(matches, acc) ==
  IF matches = <<>> THEN acc
  ELSE Strategy1(Tail(matches), AfterScript(acc, JsonStrOf(Head(matches))))

\* Strategy 2: the label patterns /Label[^>]*>([0-9,]+)</i in source order.
Patterns ==
  <<[label |-> <<"T", "o", "t", "a", "l">>, field |-> "totalCalls"],
    [label |-> <<"C", "a", "l", "l", "s">>, field |-> "totalCalls"],
    [label |-> <<"T", "M", "C">>, field |-> "teleManasCells"],
    [label |-> <<"C", "e", "l", "l", "s">>, field |-> "teleManasCells"],
    [label |-> <<"M", "I">>, field |-> "mentoringInstitutes"],
    [label |-> <<"I", "n", "s", "t", "i", "t", "u", "t", "e", "s">>,
     field |-> "mentoringInstitutes"],
    [label |-> <<"R", "C", "C">>, field |-> "regionalCoordinatingCenters"],
    [label |-> <<"C", "e", "n", "t", "e", "r", "s">>,
     field |-> "regionalCoordinatingCenters"]>>

NumberChars == Digits \cup {","}

\* The pattern with this label matched at position i: the captured group,
\* <<>> if it does not match at i.
CaptureAt(d, i, label) ==
  IF ~LitAt(d, i, label) THEN <<>>
  ELSE LET g == IndexOf(d, i + Len(label), ">")
           e == RunEnd(d, g + 1, NumberChars)
       IN IF g # 0 /\ e >= g + 1 /\ e + 1 <= Len(d) /\ d[e + 1] = "<"
          THEN SubSeq(d, g + 1, e) ELSE <<>>

\* html.match(pattern)?.[1]: the group of the leftmost match, <<>> if none.
Capture(d, label) ==
  LET S == {i \in 1..Len(d) : CaptureAt(d, i, label) # <<>>}
  IN IF S = {} THEN <<>> ELSE CaptureAt(d, MinOf(S), label)

\* match[1].replace(/,/g, '')
StripCommas(cs) == SelectSeq(cs, LAMBDA c : c # ",")

\* !Number.isNaN(Number(value)) for a text of digits.
IsNumeric(cs) == \A j \in 1..Len(cs) : cs[j] \in Digits

\* Mutant: a field set before is not overwritten by a later pattern.
RECURSIVE Strategy2_first(_, _, _)
Strategy2_first(d, acc, n) ==
  IF n > Len(Patterns) THEN acc
  ELSE LET value == StripCommas(Capture(d, Patterns[n].label))
       IN Strategy2_first(d,
                    IF value # <<>> /\ IsNumeric(value) /\ acc[Patterns[n].field] = JStr("0")
                    THEN [acc EXCEPT ![Patterns[n].field] = JStr(Join(value))]
                    ELSE acc, n + 1)
RECURSIVE Strategy2(_, _, _)
Strategy2(d, acc, n) ==
  IF n > Len(Patterns) THEN acc
  ELSE LET value == StripCommas(Capture(d, Patterns[n].label))
       IN Strategy2(d,
                    IF value # <<>> /\ IsNumeric(value)
                    THEN [acc EXCEPT ![Patterns[n].field] = JStr(Join(value))]
                    ELSE acc, n + 1)

\* What a method settled with: a value (a snapshot), null, or an error.
Value(data) == [kind |-> "value", value |-> data, error |-> NoError]
Null == [kind |-> "null", value |-> NoSnapshot, error |-> NoError]
Threw(error) == [kind |-> "throw", value |-> NoSnapshot, error |-> error]

\* The text of a page as a JS value: a string of the characters d.
JText(d) == [t |-> "string", chars |-> d]

\* The two strategies on the characters of a string.
ExtractedData(d) == Strategy2(d, Strategy1(ScriptMatches(d, 1), _getZeroData), 1)

\* html.match(...) where html, here arg, is no string: undefined and null have no
\* properties, another value has no method match.
MatchTypeError(arg) ==
  IF arg.t \in {"undefined", "null"}
  THEN Err("", "Cannot read properties of " \o arg.t \o " (reading 'match')")
  ELSE Err("", "html.match is not a function")

\* The body of the try block of _extractDataFromHTML: the first statement
\* calls html.match, which throws unless html is a string.
ExtractBody(arg) ==
  IF arg.t = "string" THEN Value(ExtractedData(arg.chars)) ELSE Threw(MatchTypeError(arg))

\* catch (error) { ...; return null; }: what the try block returned, null
\* when it threw.
OrNull(outcome) == IF outcome.kind = "throw" THEN Null ELSE outcome
OrZeroData(outcome) == IF outcome.kind = "throw" THEN Value(_getZeroData) ELSE outcome

\* Mutant: the catch returns the all-zero snapshot.
_extractDataFromHTML_zero(arg) == OrZeroData(ExtractBody(arg))
\* _extractDataFromHTML(html)
_extractDataFromHTML(arg) == OrNull(ExtractBody(arg))

\* Object.values(data).some(v => v !== "0" && v !== 0)
_hasValidData(data) ==
  \E k \in DOMAIN data : data[k] # JStr("0") /\ data[k] # JNum(0)

\* ------------------------------------------------------------- scrape
MaxRetriesScrape == 2
WebTimeout == 15000

StrategyNames == <<"Direct API Calls", "Web Scraping">>

\* new Date().toISOString(): the time of the call, one token here.
Now == "now"

NoResult == [pending |-> TRUE]

\* Mutant: the success result carries an error text as well.
SuccessResult_error(data, name) ==
  [success |-> TRUE, data |-> data, method |-> name, error |-> "", timestamp |-> Now]
SuccessResult(data, name) ==
  [success |-> TRUE, data |-> data, method |-> name, timestamp |-> Now]

\* Mutant: the failure result claims success.
FailureResult_true ==
  [success |-> TRUE, error |-> "All scraping strategies failed", data |-> _getZeroData,
   timestamp |-> Now]
FailureResult ==
  [success |-> FALSE, error |-> "All scraping strategies failed", data |-> _getZeroData,
   timestamp |-> Now]

\* Mutant: every snapshot counts as valid.
Qualifies_any(outcome) == outcome.kind = "value"
\* data && this._hasValidData(data)
Qualifies(outcome) == outcome.kind = "value" /\ _hasValidData(outcome.value)

\* Mutant: the scraper remembers its successful results, and a call that
\* finds nothing returns one of them.
AfterStrategy_remembers(i, outcome) ==
  IF Qualifies(outcome)
  THEN [pc |-> "done", status |-> "fulfilled",
        result |-> SuccessResult(outcome.value, StrategyNames[i])]
  ELSE IF i < Len(StrategyNames)
  THEN [pc |-> StrategyNames[i + 1], status |-> "pending", result |-> NoResult]
  ELSE [pc |-> "done", status |-> "fulfilled",
        result |-> IF \E e \in prev.seen : e.result.success
                   THEN (CHOOSE e \in prev.seen : e.result.success).result
                   ELSE FailureResult]
\* Mutant: there is no catch, a throwing strategy rejects scrape().
AfterStrategy_uncaught(i, outcome) ==
  IF outcome.kind = "throw" THEN [pc |-> "done", status |-> "rejected", result |-> NoResult]
  ELSE IF Qualifies(outcome)
  THEN [pc |-> "done", status |-> "fulfilled",
        result |-> SuccessResult(outcome.value, StrategyNames[i])]
  ELSE IF i < Len(StrategyNames)
  THEN [pc |-> StrategyNames[i + 1], status |-> "pending", result |-> NoResult]
  ELSE [pc |-> "done", status |-> "fulfilled", result |-> FailureResult]
\* Mutant: a throwing strategy ends the loop, the others are not tried.
AfterStrategy_throwEnds(i, outcome) ==
  IF outcome.kind = "throw"
  THEN [pc |-> "done", status |-> "fulfilled", result |-> FailureResult]
  ELSE IF Qualifies(outcome)
  THEN [pc |-> "done", status |-> "fulfilled",
        result |-> SuccessResult(outcome.value, StrategyNames[i])]
  ELSE IF i < Len(StrategyNames)
  THEN [pc |-> StrategyNames[i + 1], status |-> "pending", result |-> NoResult]
  ELSE [pc |-> "done", status |-> "fulfilled", result |-> FailureResult]
\* Mutant: the loop goes on after a strategy qualified, the last one wins.
AfterStrategy_noStop(i, outcome) ==
  IF i < Len(StrategyNames)
  THEN [pc |-> StrategyNames[i + 1], status |-> "pending", result |-> NoResult]
  ELSE IF Qualifies(outcome)
  THEN [pc |-> "done", status |-> "fulfilled",
        result |-> SuccessResult(outcome.value, StrategyNames[i])]
  ELSE [pc |-> "done", status |-> "fulfilled", result |-> FailureResult]
\* One turn of the loop in scrape() once strategy i has settled: return the
\* success result, or go on to strategy i + 1, or leave the loop and return
\* the failure result.  A strategy that threw is caught and treated like
\* one without valid data.
AfterStrategy(i, outcome) ==
  IF Qualifies(outcome)
  THEN [pc |-> "done", status |-> "fulfilled",
        result |-> SuccessResult(outcome.value, StrategyNames[i])]
  ELSE IF i < Len(StrategyNames)
  THEN [pc |-> StrategyNames[i + 1], status |-> "pending", result |-> NoResult]
  ELSE [pc |-> "done", status |-> "fulfilled", result |-> FailureResult]

NoScr == [pc |-> "idle", status |-> "idle", result |-> NoResult]

\* _scrapeWithAPI(): what getAllData settled with, an error rethrown.
_scrapeWithAPI(a) ==
  IF a.status = "rejected" THEN Threw(a.error) ELSE Value(a.value)

\* The promise of _makeWebRequest, like that of _executeRequest; data is
\* the document received, error what it rejected with, method the request
\* method, requests the number of page requests sent so far.
NoWeb ==
  [phase |-> "none", timer |-> FALSE, timerMs |-> 0, status |-> 0, data |-> <<>>,
   error |-> NoError, aborted |-> FALSE, abortPending |-> FALSE, method |-> "", requests |-> 0]

\* The options _scrapeWithWebScraping passes: the browser-like headers and
\* nothing else.
PageHeaders ==
  [k \in {"Accept", "Accept-Language", "Accept-Encoding", "Cache-Control", "Connection",
          "Pragma", "Referer", "Sec-Fetch-Dest", "Sec-Fetch-Mode", "Sec-Fetch-Site",
          "Sec-Fetch-User", "Upgrade-Insecure-Requests", "User-Agent", "sec-ch-ua",
          "sec-ch-ua-mobile", "sec-ch-ua-platform"} |->
     CASE k = "Accept" ->
            "text/html,application/xhtml+xml,application/xml;q=0.9,image/avif,image/webp,image/apng,*/*;q=0.8"
       [] k = "Accept-Language" -> "en-US,en;q=0.9"
       [] k = "Accept-Encoding" -> "gzip, deflate, br"
       [] k = "Cache-Control" -> "no-cache"
       [] k = "Connection" -> "keep-alive"
       [] k = "Pragma" -> "no-cache"
       [] k = "Referer" -> "https://telemanas.mohfw.gov.in/"
       [] k = "Sec-Fetch-Dest" -> "document"
       [] k = "Sec-Fetch-Mode" -> "navigate"
       [] k = "Sec-Fetch-Site" -> "same-origin"
       [] k = "Sec-Fetch-User" -> "?1"
       [] k = "Upgrade-Insecure-Requests" -> "1"
       [] k = "User-Agent" ->
            "Mozilla/5.0 (Windows NT 10.0; Win64; x64) AppleWebKit/537.36 (KHTML, like Gecko) Chrome/120.0.0.0 Safari/537.36"
       [] k = "sec-ch-ua" ->
            "\"Not_A Brand\";v=\"8\", \"Chromium\";v=\"120\", \"Google Chrome\";v=\"120\""
       [] k = "sec-ch-ua-mobile" -> "?0"
       [] k = "sec-ch-ua-platform" -> "\"Windows\""]
PageOptions == [k \in {"headers"} |-> PageHeaders]

\* _makeWebRequest(url, options) up to req.end(): the timer is armed for
\* options.timeout || 15000 and one request is sent with the method
\* options.method || 'GET'.
_makeWebRequest(options) ==
  [phase |-> "pending", timer |-> TRUE,
   timerMs |-> IF Has(options, "timeout") /\ options["timeout"] # 0
               THEN options["timeout"] ELSE WebTimeout,
   status |-> 0, data |-> <<>>, error |-> NoError, aborted |-> FALSE,
   abortPending |-> FALSE,
   method |-> IF Has(options, "method") /\ options["method"] # ""
              THEN options["method"] ELSE "GET",
   requests |-> web.requests + 1]

\* What _makeWebRequest resolves with on res 'end'.
WebResponse(status, data) == [ok |-> IsOk(status), status |-> status, data |-> data]

\* _scrapeWithWebScraping() after its await, given the response: an error
\* for a response that is not ok, else what _extractDataFromHTML returns
\* for response.data.
_scrapeWithWebScraping(response) ==
  IF ~response.ok
  THEN Threw(Err("", "Web scraping failed with status: " \o ToString(response.status)))
  ELSE _extractDataFromHTML(response.data)

WebStatuses == {200, 404, 500}
WebErrorNames == {"ECONNREFUSED", "ECONNRESET"}
WebDocs ==
  {<<>>, FragScript500, FragScriptBad, FragTotalTag, FragScriptOdd, FragScriptControl,
   FragScriptNumbers}

WebTimeoutError == Err("", "Web request timeout")

\* The fragments of html, put together.
RECURSIVE Document(_)
Document(fs) == IF fs = <<>> THEN <<>> ELSE Head(fs) \o Document(Tail(fs))

NoExtract == [done |-> FALSE, data |-> NoSnapshot, kind |-> "none"]

\* In place of the fragments of a page: the argument is undefined.
NotAString == <<<<"undefined">>>>

\* The JS value passed for html: the page put together, or undefined.
Argument(input) == IF input = NotAString THEN JUndef ELSE JText(Document(input))

\* What the caller of scrape() keeps of an earlier call: nothing yet.
NoPrev == [calls |-> 0, seen |-> {}, objects |-> <<>>]

\* The doubles of a scraper under test, before scrape() is called: what the
\* double of _scrapeWithAPI settled with, and the double of _makeWebRequest.
NoOutcome == [kind |-> "none", value |-> NoSnapshot, error |-> NoError]
Awaited == [kind |-> "pending", value |-> NoSnapshot, error |-> NoError]
NoReply == [kind |-> "none", status |-> 0, error |-> NoError]
NoDoubles == [api |-> NoOutcome, page |-> NoReply]

\* testAllMethods() and getDataWithMethod() not called.
NoTests == [pc |-> "idle", results |-> EmptyObj]
NoPick == [pc |-> "idle", preferred |-> "", ret |-> NoResult]

\* ------------------------------------------------ TeleManasDataService
DefaultCacheTimeout == 600000
MaxClock == 4
Calls == {1, 2}

\* dataCache.get('latestData') when nothing was stored.
NoEntry == [data |-> NoResult, timestamp |-> 0, present |-> FALSE]
Entry(result, now) == [data |-> result, timestamp |-> now, present |-> TRUE]

\* One call of getLatestData: pc "idle" (not called), "scraping" (at its
\* await) or "done"; ret what it returned; hit whether it came from the cache.
NoCall == [pc |-> "idle", useCache |-> FALSE, ret |-> NoResult, hit |-> FALSE]

\* new TeleManasDataService(options): an empty cache; clock is Date.now().
Service(cacheTimeoutOpt) ==
  [cache |-> NoEntry, cacheTimeout |-> OptOr(cacheTimeoutOpt, DefaultCacheTimeout),
   clock |-> 0, calls |-> [c \in Calls |-> NoCall]]

NoSvc == Service(0)

\* cached && (Date.now() - cached.timestamp) < this.cacheTimeout
Fresh(cached, now, cacheTimeout) ==
  cached.present /\ now - cached.timestamp < cacheTimeout

\* Mutant: every result is stored.
StoreAfter_always(cache, result, now) == Entry(result, now)
\* if (result.success) this.dataCache.set(cacheKey, {data: result, timestamp: Date.now()})
StoreAfter(cache, result, now) ==
  IF result.success THEN Entry(result, now) ELSE cache

\* What scrape() may resolve to.
ScrapeOutcomes ==
  {SuccessResult([_getZeroData EXCEPT !.totalCalls = JStr("2821889")], StrategyNames[1]),
   SuccessResult([_getZeroData EXCEPT !.totalCalls = JStr("500")], StrategyNames[2]),
   FailureResult}
\* ------------------------------------------------------ the mock server
BaseCalls == 2821889
Fields == {"totalCalls", "teleManasCells", "mentoringInstitutes", "regionalCoordinatingCenters"}

\* let mockData = {...}: the values are strings.
mockData ==
  [totalCalls |-> "2821889", teleManasCells |-> "53", mentoringInstitutes |-> "23",
   regionalCoordinatingCenters |-> "5"]

\* Mutant: the refresh recomputes totalCalls and keeps the other fields.
updateMockData_keep(data, hour, random) ==
  [data EXCEPT !.totalCalls = ToString(BaseCalls + random + hour * 50)]
\* updateMockData(): hour is now.getHours(), random is
\* Math.floor(Math.random() * 1000); data is the mockData it replaces.
updateMockData(data, hour, random) ==
  [totalCalls |-> ToString(BaseCalls + random + hour * 50), teleManasCells |-> "53",
   mentoringInstitutes |-> "23", regionalCoordinatingCenters |-> "5"]

\* POST /admin/updateData: body holds the four destructured properties,
\* undefined where the request has none.
updateData(data, body) ==
  [f \in Fields |-> IF Truthy(body[f]) THEN String(body[f]) ELSE data[f]]

\* The values a property of the request body takes in this model.
BodyValues == {JUndef, JNum(0), JStr("7"), JNum(60)}
UpdateBodies == [Fields -> BodyValues]
Hours == {0, 23}
Randoms == {0, 999}

\* The server after start: mockData, and no request handled yet (last
\* records the latest operation, its input and the data it found).
NoMock == [data |-> mockData, last |-> [op |-> "none"]]
\* ----------------------------------------------------- the proxy server
ProxyTimeout == 10000
MaxRequests == 2
\* The socket timeout in steps of the clock of this model.
MaxIdle == 2
Endpoints == {"getCallCount", "getTMCCount"}
ProxyStatuses == {200, 404, 503}
ProxyBodies == {BodyCalls, BodyTMC, BodyHtml, BodyNone}
ProxyErrorNames == {"ECONNREFUSED", "ECONNRESET", "HANGUP"}

\* No response sent on the inbound request yet.
NoAnswer == [status |-> 0, data |-> DNull, error |-> "", message |-> ""]

\* res 'end' in makeRequest: the parsed body, or the raw text where
\* JSON.parse throws.
Resolved(status, text) ==
  [status |-> status,
   data |-> IF JSONParse(text).ok THEN JSONParse(text).value ELSE DText(text)]

\* The error text of each route's catch block.
FailedToFetch(endpoint) ==
  IF endpoint = "getCallCount" THEN "Failed to fetch call count"
  ELSE "Failed to fetch TMC count"

\* The route after `await makeRequest(url)` resolved: res.json(data), or
\* res.status(status).json(data) for another status.
AnswerResolved(response) ==
  IF response.status = 200
    THEN [status |-> 200, data |-> response.data, error |-> "", message |-> ""]
    ELSE [status |-> response.status, data |-> response.data, error |-> "", message |-> ""]

\* The route's catch block: error.message goes into the body.
AnswerRejected(endpoint, error) ==
  [status |-> 500, data |-> DNull, error |-> FailedToFetch(endpoint),
   message |-> error.message]

\* Mutant: a promise that is settled again runs the route again.
Settle_again(p, answer, cause) ==
  [p EXCEPT !.phase = "answered", !.settled = TRUE, !.responses = p.responses + 1,
            !.answer = answer, !.cause = cause]
\* resolve/reject of makeRequest's promise followed by the route's
\* continuation; a settled promise ignores it.
Settle(p, answer, cause) ==
  IF p.settled THEN p
  ELSE [p EXCEPT !.phase = "answered", !.settled = TRUE, !.responses = p.responses + 1,
                 !.answer = answer, !.cause = cause]

NoCause == [kind |-> "none", status |-> 0, text |-> "", name |-> ""]

\* The proxy before any request: phase is where the inbound request is,
\* responses counts the responses sent on it, served the requests taken,
\* idle how long the upstream socket has been without activity.
NoProxy ==
  [phase |-> "idle", endpoint |-> "", timeout |-> 0, idle |-> 0, status |-> 0,
   settled |-> FALSE,
   hangup |-> FALSE, responses |-> 0, answer |-> NoAnswer, cause |-> NoCause, served |-> 0]

\* Mutant: the catch block is missing, a failed request rejects.
testConnection_uncaught(state, r) ==
  CASE state \notin {"returned", "thrown"} -> [status |-> "pending", value |-> FALSE]
    [] state = "thrown" -> [status |-> "rejected", value |-> FALSE]
    [] OTHER -> [status |-> "fulfilled", value |-> r.response.ok]

\* testConnection() after its await: true for an ok response, false for any
\* other response and for a failed request.
testConnection(state, r) ==
  CASE state \notin {"returned", "thrown"} -> [status |-> "pending", value |-> FALSE]
    [] state = "thrown" -> [status |-> "fulfilled", value |-> FALSE]
    [] r.response.ok -> [status |-> "fulfilled", value |-> TRUE]
    [] OTHER -> [status |-> "fulfilled", value |-> FALSE]

NoConn == [status |-> "idle", value |-> FALSE]

\* ------------------------------------------- a direct call of makeRequest
ClientOptions(maxBound) ==
  { Client(m, d, 0) : m \in 0..maxBound, d \in {0, 250} }

InitCore ==
  /\ opts = [s \in Slots |-> EmptyObj]
  /\ reqOpts = [s \in Slots |-> EmptyObj]
  /\ pc = [s \in Slots |-> "idle"]
  /\ attempt = [s \in Slots |-> 0]
  /\ lastError = [s \in Slots |-> NoError]
  /\ ret = [s \in Slots |-> NoRet]
  /\ waited = [s \in Slots |-> 0]
  /\ log = [s \in Slots |-> <<>>]
  /\ ex = [s \in Slots |-> NoEx]
  /\ sub = NoSub
  /\ all = NoAll
  /\ conn = NoConn
  /\ scr = NoScr
  /\ web = NoWeb
  /\ html = <<>>
  /\ extracted = NoExtract
  /\ prev = NoPrev
  /\ mock = NoMock
  /\ proxy = NoProxy
  /\ tests = NoTests
  /\ pick = NoPick
  /\ doubles = NoDoubles

InitSlots ==
  /\ InitCore
  /\ svc = NoSvc

Init ==
  /\ client \in ClientOptions(MaxRetriesBound)
  /\ InitSlots

CallMakeRequest == \E options \in CallerOptions : MakeRequest("req", options)

Other == <<client, sub, all, conn, scr, web, html, extracted, prev, svc, mock, proxy,
    tests, pick, doubles>>

Next ==
  \/ CallMakeRequest /\ UNCHANGED Other
  \/ ResponseHead("req") /\ UNCHANGED Other
  \/ ResponseEnd("req") /\ UNCHANGED Other
  \/ TransportError("req") /\ UNCHANGED Other
  \/ Timeout("req") /\ UNCHANGED Other
  \/ AbortedRequestError("req") /\ UNCHANGED Other
  \/ Wake("req") /\ UNCHANGED Other

Spec == Init /\ [][Next]_vars

\* What the event loop guarantees: an armed timer fires unless it is
\* cleared (the request timeout, the backoff sleep), and a queued event of
\* an aborted request is delivered.  The network guarantees nothing: a
\* response, the end of its body or a transport error may never come.
TimersFire ==
  /\ WF_vars(Timeout("req") /\ UNCHANGED Other)
  /\ WF_vars(Wake("req") /\ UNCHANGED Other)
  /\ WF_vars(AbortedRequestError("req") /\ UNCHANGED Other)

SpecLive == Spec /\ TimersFire

\* ------------------------------------------------------- getAllData
OtherAll == <<client, conn, scr, web, html, extracted, prev, svc, mock, proxy, tests, pick,
    doubles>>

InitAll ==
  /\ client \in ClientOptions(MaxRetriesAll)
  /\ InitSlots

\* getAllData() up to its await: getCallCount() and getTMCData() are called
\* in turn, each running up to the first await of its makeRequest(url).
CallGetAllData ==
  /\ all.status = "idle"
  /\ MakeRequestIn({"cc", "tmc"}, [s \in {"cc", "tmc"} |-> EmptyObj])
  /\ Reactions

NextAll ==
  \/ CallGetAllData /\ UNCHANGED OtherAll
  \/ \E s \in {"cc", "tmc"} : ResponseHead(s) /\ Reactions /\ UNCHANGED OtherAll
  \/ \E s \in {"cc", "tmc"} : ResponseEnd(s) /\ Reactions /\ UNCHANGED OtherAll
  \/ \E s \in {"cc", "tmc"} : TransportError(s) /\ Reactions /\ UNCHANGED OtherAll
  \/ \E s \in {"cc", "tmc"} : Timeout(s) /\ Reactions /\ UNCHANGED OtherAll
  \/ \E s \in {"cc", "tmc"} : AbortedRequestError(s) /\ Reactions /\ UNCHANGED OtherAll
  \/ \E s \in {"cc", "tmc"} : Wake(s) /\ Reactions /\ UNCHANGED OtherAll

SpecAll == InitAll /\ [][NextAll]_vars

\* ---------------------------------------------------- testConnection
\* The reaction to the settlement of testConnection's makeRequest call.
ConnReaction == conn' = testConnection(pc'["req"], ret'["req"])

OtherConn == <<client, sub, all, scr, web, html, extracted, prev, svc, mock, proxy,
    tests, pick, doubles>>

\* testConnection() up to its await of makeRequest(`${baseUrl}/getCallCount`).
CallTestConnection ==
  /\ conn.status = "idle"
  /\ MakeRequest("req", EmptyObj)
  /\ ConnReaction

NextConn ==
  \/ CallTestConnection /\ UNCHANGED OtherConn
  \/ ResponseHead("req") /\ ConnReaction /\ UNCHANGED OtherConn
  \/ ResponseEnd("req") /\ ConnReaction /\ UNCHANGED OtherConn
  \/ TransportError("req") /\ ConnReaction /\ UNCHANGED OtherConn
  \/ Timeout("req") /\ ConnReaction /\ UNCHANGED OtherConn
  \/ AbortedRequestError("req") /\ ConnReaction /\ UNCHANGED OtherConn
  \/ Wake("req") /\ ConnReaction /\ UNCHANGED OtherConn

SpecConn == Init /\ [][NextConn]_vars

\* ------------------------------------------------------------ scrape()
OtherScrape == <<client, conn, html, extracted, prev, svc, mock, proxy, tests, pick, doubles>>
WebFrame ==
  <<client, conn, html, extracted, sub, all, opts, reqOpts, pc, attempt, lastError, ret,
    waited, log, ex, prev, svc, mock, proxy, tests, pick, doubles>>

InitScrape ==
  /\ client \in {Client(m, 0, 0) : m \in 1..MaxRetriesScrape}
  /\ InitSlots

\* scrape() resumes when getAllData has settled: the first turn of the loop
\* ends and, unless it returned, the second strategy runs up to its await
\* of _makeWebRequest.
ScrapeReaction(trying) ==
  IF trying /\ all'.status \in {"fulfilled", "rejected"}
  THEN /\ scr' = AfterStrategy(1, _scrapeWithAPI(all'))
       /\ web' = IF AfterStrategy(1, _scrapeWithAPI(all')).pc = StrategyNames[2]
                 THEN _makeWebRequest(PageOptions) ELSE web
  ELSE /\ scr' = IF trying THEN [pc |-> StrategyNames[1], status |-> "pending",
                                 result |-> NoResult]
                 ELSE scr
       /\ web' = web

\* scrape() up to its first await: strategy 1 calls getAllData().
CallScrape ==
  /\ scr.pc = "idle"
  /\ MakeRequestIn({"cc", "tmc"}, [s \in {"cc", "tmc"} |-> EmptyObj])
  /\ Reactions
  /\ ScrapeReaction(TRUE)

\* Mutant: a failed page request is sent again, up to maxRetries times.
WebSettle_retry(outcome, webNow) ==
  IF outcome.kind = "throw" /\ web.requests < client.maxRetries
  THEN /\ scr' = scr
       /\ web' = _makeWebRequest(PageOptions)
  ELSE /\ scr' = AfterStrategy(2, outcome)
       /\ web' = webNow
\* _makeWebRequest has settled: _scrapeWithWebScraping and then scrape()
\* resume.
WebSettle(outcome, webNow) ==
  /\ scr' = AfterStrategy(2, outcome)
  /\ web' = webNow

\* One event of the page request:
\*   head: the response callback, clearTimeout.
\*   end: res 'end', the promise resolves with the document.
\*   error: req 'error', clearTimeout, the promise rejects.
\*   timeout: the setTimeout callback, abort and reject with
\*     Error('Web request timeout'); the caller is still at its await when
\*     it ends.
\*   aborted: the aborted request's 'error' event, the next callback after
\*     the timer's; nothing is left for it to do, and then the caller resumes
\*     with Error('Web request timeout').
WebEventKinds == {"head", "end", "error", "timeout", "aborted"}

\* What an event of the kind may bring: a status, a document, an error name.
WebInput(status, doc, name) == [status |-> status, doc |-> doc, name |-> name]
WebInputs(kind) ==
  CASE kind = "head" -> {WebInput(status, <<>>, "") : status \in WebStatuses}
    [] kind = "end" -> {WebInput(0, doc, "") : doc \in WebDocs}
    [] kind = "error" -> {WebInput(0, <<>>, name) : name \in WebErrorNames}
    [] OTHER -> {WebInput(0, <<>>, "")}

WebCanDeliver(kind, in) ==
  CASE kind = "head" -> web.phase = "pending"
    [] kind = "end" -> web.phase = "receiving"
    [] kind = "error" ->
         /\ web.phase \in {"pending", "receiving"}
         /\ web.phase = "receiving" => in.name = "ECONNRESET"
    [] kind = "timeout" -> web.phase = "pending" /\ web.timer
    [] kind = "aborted" -> web.abortPending /\ web.phase = "settled"

\* The page request after the event (web), whether _scrapeWithWebScraping
\* settles in this turn, and with what.
WebDeliver(kind, in) ==
  CASE kind = "head" ->
         [web |-> [web EXCEPT !.phase = "receiving", !.timer = FALSE, !.status = in.status],
          settles |-> FALSE, outcome |-> Null]
    [] kind = "end" ->
         [web |-> [web EXCEPT !.phase = "settled", !.data = in.doc],
          settles |-> TRUE,
          outcome |-> _scrapeWithWebScraping(WebResponse(web.status, JText(in.doc)))]
    [] kind = "error" ->
         [web |-> [web EXCEPT !.phase = "settled", !.timer = FALSE,
                              !.error = SystemError(in.name)],
          settles |-> TRUE, outcome |-> Threw(SystemError(in.name))]
    [] kind = "timeout" ->
         [web |-> [web EXCEPT !.phase = "settled", !.timer = FALSE, !.error = WebTimeoutError,
                              !.aborted = TRUE, !.abortPending = TRUE],
          settles |-> FALSE, outcome |-> Null]
    [] kind = "aborted" ->
         [web |-> [web EXCEPT !.abortPending = FALSE],
          settles |-> TRUE, outcome |-> Threw(web.error)]

\* The events of the page request sent by scrape()'s second strategy.
WebAfter(delivered) ==
  IF delivered.settles THEN WebSettle(delivered.outcome, delivered.web)
  ELSE web' = delivered.web /\ UNCHANGED scr
WebHappens(kind) ==
  \E in \in WebInputs(kind) : WebCanDeliver(kind, in) /\ WebAfter(WebDeliver(kind, in))
WebResponseHead == scr.pc = StrategyNames[2] /\ WebHappens("head")
WebResponseEnd == scr.pc = StrategyNames[2] /\ WebHappens("end")
WebTransportError == scr.pc = StrategyNames[2] /\ WebHappens("error")
WebTimeoutFires == scr.pc = StrategyNames[2] /\ WebHappens("timeout")
WebAbortedError == scr.pc = StrategyNames[2] /\ WebHappens("aborted")

NextScrape ==
  \/ CallScrape /\ UNCHANGED OtherScrape
  \/ \E s \in {"cc", "tmc"} :
       ResponseHead(s) /\ Reactions /\ ScrapeReaction(scr.pc = StrategyNames[1])
         /\ UNCHANGED OtherScrape
  \/ \E s \in {"cc", "tmc"} :
       ResponseEnd(s) /\ Reactions /\ ScrapeReaction(scr.pc = StrategyNames[1])
         /\ UNCHANGED OtherScrape
  \/ \E s \in {"cc", "tmc"} :
       TransportError(s) /\ Reactions /\ ScrapeReaction(scr.pc = StrategyNames[1])
         /\ UNCHANGED OtherScrape
  \/ \E s \in {"cc", "tmc"} :
       Timeout(s) /\ Reactions /\ ScrapeReaction(scr.pc = StrategyNames[1])
         /\ UNCHANGED OtherScrape
  \/ \E s \in {"cc", "tmc"} :
       AbortedRequestError(s) /\ Reactions /\ ScrapeReaction(scr.pc = StrategyNames[1])
         /\ UNCHANGED OtherScrape
  \/ \E s \in {"cc", "tmc"} :
       Wake(s) /\ Reactions /\ ScrapeReaction(scr.pc = StrategyNames[1])
         /\ UNCHANGED OtherScrape
  \/ WebResponseHead /\ UNCHANGED WebFrame
  \/ WebResponseEnd /\ UNCHANGED WebFrame
  \/ WebTransportError /\ UNCHANGED WebFrame
  \/ WebTimeoutFires /\ UNCHANGED WebFrame
  \/ WebAbortedError /\ UNCHANGED WebFrame

SpecScrape == InitScrape /\ [][NextScrape]_vars

\* --------------------------------------- _extractDataFromHTML on its own
MaxFragments == 2
OtherHTML ==
  <<client, conn, sub, all, opts, reqOpts, pc, attempt, lastError, ret, waited, log, ex,
    scr, web, prev, svc, mock, proxy, tests, pick, doubles>>

InitHTML ==
  /\ client = Client(0, 0, 0)
  /\ InitSlots

\* The page grows by one fragment.
Append1 ==
  /\ ~extracted.done /\ html # NotAString /\ Len(html) < MaxFragments
  /\ \E f \in Fragments : html' = Append(html, f)
  /\ UNCHANGED extracted

\* _extractDataFromHTML(html) is called.
Extract ==
  /\ ~extracted.done
  /\ extracted' = [done |-> TRUE, data |-> _extractDataFromHTML(Argument(html)).value,
                    kind |-> _extractDataFromHTML(Argument(html)).kind]
  /\ UNCHANGED html

\* The caller is about to pass something that is no string.
PassUndefined ==
  /\ ~extracted.done /\ html = <<>>
  /\ html' = NotAString
  /\ UNCHANGED extracted

NextHTML ==
  \/ Append1 /\ UNCHANGED OtherHTML
  \/ Extract /\ UNCHANGED OtherHTML
  \/ PassUndefined /\ UNCHANGED OtherHTML

SpecHTML == InitHTML /\ [][NextHTML]_vars

\* ------------------------------ scrape() of a scraper with test doubles
\* scrape() calls _scrapeWithAPI and _scrapeWithWebScraping through this,
\* and _scrapeWithWebScraping calls _makeWebRequest through this: a test
\* replaces _scrapeWithAPI and _makeWebRequest of a scraper by doubles that
\* settle as the test says.
OtherLoop ==
  <<client, conn, sub, all, opts, reqOpts, pc, attempt, lastError, ret, waited, log, ex,
    web, prev, svc, mock, proxy, tests, pick>>

\* The snapshots, and the errors, a double of _scrapeWithAPI settles with.
DoubleSnapshots ==
  {_getZeroData,
   [_getZeroData EXCEPT !.totalCalls = JStr("500")],
   [_getZeroData EXCEPT !.teleManasCells = JNum(0)],
   [_getZeroData EXCEPT !.mentoringInstitutes = JNum(7)]}
DoubleErrors == {SystemError("ECONNREFUSED"), TimeoutError}
ApiOutcomes ==
  {Value(data) : data \in DoubleSnapshots} \cup {Null} \cup {Threw(e) : e \in DoubleErrors}

\* What the double of _makeWebRequest puts into response.data: a page of
\* at most one fragment, or undefined.
LoopPages == {<<>>, NotAString} \cup {<<f>> : f \in Fragments}

\* scrape() up to its first await: the first strategy calls the double of
\* _scrapeWithAPI.
CallScrapeDoubled ==
  /\ scr.pc = "idle"
  /\ scr' = [pc |-> StrategyNames[1], status |-> "pending", result |-> NoResult]
  /\ doubles' = [doubles EXCEPT !.api = Awaited]
  /\ UNCHANGED <<html, extracted>>

\* The double of _scrapeWithAPI settles: the first turn of the loop ends
\* and, unless scrape() returned, _scrapeWithWebScraping runs up to its
\* await of the double of _makeWebRequest.
ApiDoubleSettles(outcome) ==
  /\ scr.pc = StrategyNames[1]
  /\ scr' = AfterStrategy(1, outcome)
  /\ doubles' = [api |-> outcome,
                 page |-> IF AfterStrategy(1, outcome).pc = StrategyNames[2]
                          THEN [NoReply EXCEPT !.kind = "pending"] ELSE doubles.page]
  /\ UNCHANGED <<html, extracted>>

\* The double of _makeWebRequest resolves with {ok, status, data}:
\* _scrapeWithWebScraping and then scrape() resume.
PageDoubleResolves(status, input) ==
  LET response == WebResponse(status, Argument(input))
      outcome == _scrapeWithWebScraping(response)
  IN /\ scr.pc = StrategyNames[2]
     /\ scr' = AfterStrategy(2, outcome)
     /\ doubles' = [doubles EXCEPT !.page = [kind |-> "resolved", status |-> status,
                                             error |-> NoError]]
     /\ html' = IF response.ok THEN input ELSE html
     /\ extracted' = IF response.ok
                     THEN [done |-> TRUE, data |-> outcome.value, kind |-> outcome.kind]
                     ELSE extracted

\* The double of _makeWebRequest rejects.
PageDoubleRejects(error) ==
  /\ scr.pc = StrategyNames[2]
  /\ scr' = AfterStrategy(2, Threw(error))
  /\ doubles' = [doubles EXCEPT !.page = [kind |-> "rejected", status |-> 0,
                                          error |-> error]]
  /\ UNCHANGED <<html, extracted>>

NextLoop ==
  \/ CallScrapeDoubled /\ UNCHANGED OtherLoop
  \/ \E outcome \in ApiOutcomes : ApiDoubleSettles(outcome) /\ UNCHANGED OtherLoop
  \/ \E status \in WebStatuses, input \in LoopPages :
       PageDoubleResolves(status, input) /\ UNCHANGED OtherLoop
  \/ \E error \in DoubleErrors : PageDoubleRejects(error) /\ UNCHANGED OtherLoop

SpecLoop == InitHTML /\ [][NextLoop]_vars

\* ---------------------------------------------- scrape() called again
OtherTwice == <<client, conn, html, extracted, svc, mock, proxy, tests, pick, doubles>>
CallFrame ==
  <<client, conn, html, extracted, sub, all, opts, reqOpts, pc, attempt, lastError, ret,
    waited, log, ex, web, svc, mock, proxy, tests, pick, doubles>>

MaxCalls == 3

\* One attempt per request, so that the last attempt is the whole call.
InitTwice ==
  /\ client = Client(1, 0, 0)
  /\ InitSlots

\* What the transport did during the current call of scrape(): the outcome
\* and body of each API attempt and of the page request.
Observation ==
  [cc |-> log["cc"], ccBody |-> ex["cc"].body, tmc |-> log["tmc"], tmcBody |-> ex["tmc"].body,
   page |-> [phase |-> web.phase, status |-> web.status, data |-> web.data,
             error |-> web.error]]

\* The transport of this specification answers getCallCount with 200 or
\* 500 and one of two bodies, getTMCData with 500, and the page request with
\* 200 or 500 and one of two pages, or refuses the page request.
NarrowTransport ==
  /\ ex'["cc"].status \in {0, 200, 500} /\ ex'["tmc"].status \in {0, 500}
  /\ ex'["cc"].body \in {"", BodyCalls, BodyCallsZero}
  /\ ex'["tmc"].body \in {"", BodyNull}
  /\ ~ex'["cc"].aborted /\ ~ex'["tmc"].aborted
  /\ ex'["tmc"].phase = "settled" => ex'["tmc"].status # 0
  /\ web'.status \in {0, 200, 500}
  /\ web'.data \in {<<>>, FragScript500}
  /\ ~web'.aborted
  /\ web'.error \in {NoError, SystemError("ECONNREFUSED")}

\* Mutant: _getZeroData and getAllData hand out one object that all calls
\* share.
NewObject_shared(objects) == 1
\* The data of a result is an object made by an object literal during the
\* call (in _getZeroData, or in getAllData): a new object, which here is the
\* next place in the list of the objects returned so far.
NewObject(objects) == Len(objects) + 1

\* The objects after the fields of snapshot were written into the object
\* at place ref.
Written(objects, ref, snapshot) ==
  IF ref <= Len(objects) THEN [objects EXCEPT ![ref] = snapshot]
  ELSE Append(objects, snapshot)

\* scrape() has returned to its caller, who keeps the result together with
\* what the transport did.
ScrapeReturned ==
  /\ scr.pc = "done"
  /\ prev' = [calls |-> prev.calls + 1,
              seen |-> prev.seen \cup {[call |-> prev.calls + 1, obs |-> Observation,
                                        result |-> scr.result,
                                        ref |-> NewObject(prev.objects)]},
              objects |-> Written(prev.objects, NewObject(prev.objects), scr.result.data)]
  /\ scr' = NoScr
  /\ UNCHANGED CallFrame

\* A further call of scrape() on the same scraper, up to its first await.
\* strategies, the loop variables, the promises of getAllData and its two
\* sub-calls, and options, attempt and lastError of each makeRequest are
\* locals of the new call; those of the call before are out of reach.  The
\* scraper and its client are the same objects as before.
CallScrapeAgain ==
  /\ scr.pc = "idle" /\ prev.calls \in 1..(MaxCalls - 1)
  /\ ~AbortErrorDue
  /\ SetSlots(StartIn({"cc", "tmc"}, [s \in {"cc", "tmc"} |-> EmptyObj],
                      [s \in Slots |-> FreeSlot]))
  /\ sub' = [cc |-> getCallCount(pc'["cc"], ret'["cc"]),
             tmc |-> getTMCData(pc'["tmc"], ret'["tmc"])]
  /\ all' = getAllData(getCallCount(pc'["cc"], ret'["cc"]),
                       getTMCData(pc'["tmc"], ret'["tmc"]))
  /\ scr' = [pc |-> StrategyNames[1], status |-> "pending", result |-> NoResult]
  /\ web' = NoWeb
  /\ UNCHANGED prev

NextTwice ==
  \/ NextScrape /\ NarrowTransport
  \/ ScrapeReturned
  \/ CallScrapeAgain /\ UNCHANGED OtherTwice

SpecTwice == InitTwice /\ [][NextTwice]_vars

\* ------------------------------------------------ testAllMethods()
MethodNames == <<"API Connection", "Direct API Scraping", "Web Scraping">>
SlotVars == <<opts, reqOpts, pc, attempt, lastError, ret, waited, log, ex>>
NoOptions == [s \in {"cc", "tmc"} |-> EmptyObj]

\* results[name]: {success: true, data} with what method() resolved with
\* (flag: true or false of the connection test; data: a snapshot), or
\* {success: false, error} with the message of what it threw.
Passed(flag, data) == [success |-> TRUE, flag |-> flag, data |-> data, error |-> ""]
Failed(error) ==
  [success |-> FALSE, flag |-> FALSE, data |-> NoSnapshot, error |-> error.message]
ResultOf(outcome) ==
  IF outcome.kind = "throw" THEN Failed(outcome.error) ELSE Passed(FALSE, outcome.value)

\* The loop of testAllMethods after method i has settled with entry.
TestsAfter(i, entry) ==
  [pc |-> IF i < Len(MethodNames) THEN MethodNames[i + 1] ELSE "done",
   results |-> Spread(tests.results, [k \in {MethodNames[i]} |-> entry])]

\* getAllData() as the calls g make it.
AllOf(g) ==
  getAllData(getCallCount(g["cc"].pc, g["cc"].ret), getTMCData(g["tmc"].pc, g["tmc"].ret))

OtherTestAll == <<client, scr, html, extracted, prev, svc, mock, proxy, pick, doubles>>

InitTestAll ==
  /\ client = Client(1, 0, 0)
  /\ InitSlots

\* The transport of this specification answers the connection test with
\* 200 or 500 and one body, and the other requests as NarrowTransport says.
NarrowTests ==
  /\ NarrowTransport
  /\ ex'["req"].status \in {0, 200, 500}
  /\ ex'["req"].body \in {"", BodyCalls}

\* testAllMethods() up to its first await: the first method calls
\* testConnection().
CallTestAllMethods ==
  /\ tests.pc = "idle"
  /\ MakeRequest("req", EmptyObj)
  /\ ConnReaction
  /\ tests' = [pc |-> MethodNames[1], results |-> EmptyObj]
  /\ UNCHANGED <<sub, all, web>>

\* The turn of an event of an API request during testAllMethods, g being
\* the calls after the event: when the awaited method settles, its result is
\* recorded and the next method is called in the same turn (getAllData
\* after testConnection, the page request after getAllData).
TestsSlots(g) ==
  LET c == testConnection(g["req"].pc, g["req"].ret)
  IN CASE tests.pc = MethodNames[1] ->
            /\ conn' = c
            /\ web' = web
            /\ IF c.status # "pending"
               THEN /\ SetSlots(StartIn({"cc", "tmc"}, NoOptions, g))
                    /\ Reactions
                    /\ tests' = TestsAfter(1, IF c.status = "fulfilled"
                                              THEN Passed(c.value, NoSnapshot)
                                              ELSE Failed(g["req"].ret.error))
               ELSE /\ SetSlots(g)
                    /\ UNCHANGED <<sub, all, tests>>
       [] tests.pc = MethodNames[2] ->
            /\ SetSlots(g)
            /\ Reactions
            /\ conn' = conn
            /\ IF AllOf(g).status \in {"fulfilled", "rejected"}
               THEN /\ tests' = TestsAfter(2, ResultOf(_scrapeWithAPI(AllOf(g))))
                    /\ web' = _makeWebRequest(PageOptions)
               ELSE UNCHANGED <<tests, web>>
       [] OTHER ->
            /\ SetSlots(g)
            /\ UNCHANGED <<sub, all, conn, tests, web>>

\* The turn of an event of the page request of the third method, r being
\* what WebDeliver gives.
TestsWeb(r) ==
  /\ web' = r.web
  /\ tests' = IF r.settles THEN TestsAfter(3, ResultOf(r.outcome)) ELSE tests

NextTestAll ==
  \/ CallTestAllMethods /\ UNCHANGED OtherTestAll
  \/ \E s \in Slots, kind \in EventKinds : \E in \in Inputs(s, kind) :
       /\ CanDeliver(s, kind, in)
       /\ TestsSlots(Deliver(s, kind, in))
       /\ UNCHANGED OtherTestAll
  \/ \E kind \in WebEventKinds : \E in \in WebInputs(kind) :
       /\ WebCanDeliver(kind, in)
       /\ TestsWeb(WebDeliver(kind, in))
       /\ UNCHANGED <<SlotVars, sub, all, conn>>
       /\ UNCHANGED OtherTestAll

SpecTestAll == InitTestAll /\ [][NextTestAll /\ NarrowTests]_vars

\* --------------------------------------------- getDataWithMethod()
\* The arguments: the two keys of methods, a name that methods does not
\* have, and the names that methods inherits from Object.prototype, all of
\* them truthy.
InheritedNames ==
  {"toString", "toLocaleString", "valueOf", "constructor", "hasOwnProperty", "isPrototypeOf",
   "propertyIsEnumerable", "__proto__", "__defineGetter__", "__defineSetter__",
   "__lookupGetter__", "__lookupSetter__"}
PreferredMethods == {"api", "web", "other"} \cup InheritedNames

JFunction == [t |-> "function", s |-> "", n |-> 0]
ObjectText ==
  <<"[", "o", "b", "j", "e", "c", "t", " ", "O", "b", "j", "e", "c", "t", "]">>
NotAFunction ==
  Err("", "methods[preferredMethod] is not a function")
ExpectingFunction(name) == Err("", "Object.prototype." \o name \o ": Expecting function")

\* methods[name]() for an inherited name: data is what it returns, truthy
\* whether data is truthy, values what Object.values(data) holds.
\*   toString, toLocaleString: the text [object Object], whose values are
\*     its characters;
\*   valueOf: methods itself, whose values are its two functions;
\*   constructor: Object(), a new object without keys;
\*   hasOwnProperty, isPrototypeOf, propertyIsEnumerable: called without an
\*     argument, false;
\*   __proto__: Object.prototype, which is no function, so the call throws;
\*   __defineGetter__, __defineSetter__: called without a function, a
\*     TypeError;
\*   __lookupGetter__, __lookupSetter__: no accessor is found, undefined.
InheritedCall(name) ==
  CASE name \in {"toString", "toLocaleString"} ->
         [kind |-> "value", data |-> JStr(Join(ObjectText)), truthy |-> TRUE,
          values |-> {JStr(ObjectText[i]) : i \in 1..Len(ObjectText)}, error |-> NoError]
    [] name = "valueOf" ->
         [kind |-> "value", data |-> [k \in {"api", "web"} |-> JFunction], truthy |-> TRUE,
          values |-> {JFunction}, error |-> NoError]
    [] name = "constructor" ->
         [kind |-> "value", data |-> EmptyObj, truthy |-> TRUE, values |-> {},
          error |-> NoError]
    [] name \in {"hasOwnProperty", "isPrototypeOf", "propertyIsEnumerable"} ->
         [kind |-> "value", data |-> JBool(FALSE), truthy |-> FALSE, values |-> {},
          error |-> NoError]
    [] name = "__proto__" ->
         [kind |-> "throw", data |-> JUndef, truthy |-> FALSE, values |-> {},
          error |-> NotAFunction]
    [] name \in {"__defineGetter__", "__defineSetter__"} ->
         [kind |-> "throw", data |-> JUndef, truthy |-> FALSE, values |-> {},
          error |-> ExpectingFunction(name)]
    [] name \in {"__lookupGetter__", "__lookupSetter__"} ->
         [kind |-> "value", data |-> JUndef, truthy |-> FALSE, values |-> {},
          error |-> NoError]

\* data && this.scraper._hasValidData(data) for what an inherited method
\* returned.
InheritedValid(r) ==
  r.kind = "value" /\ r.truthy /\ \E v \in r.values : v # JStr("0") /\ v # JNum(0)

OtherWithMethod == <<client, conn, html, extracted, prev, svc, mock, proxy, tests, doubles>>

InitWithMethod ==
  /\ client = Client(1, 0, 0)
  /\ InitSlots

\* scrape() is called in this turn, the calls being g: its first strategy
\* calls getAllData(), whose two calls start afresh.
ScrapeFrom(g) ==
  /\ SetSlots(StartIn({"cc", "tmc"}, NoOptions,
                      [g EXCEPT !["cc"] = FreeSlot, !["tmc"] = FreeSlot]))
  /\ Reactions
  /\ scr' = [pc |-> StrategyNames[1], status |-> "pending", result |-> NoResult]

\* `return await this.scraper.scrape()`: what scrape() resolves with is
\* returned in the same turn.
PickReturn ==
  pick' = IF scr'.pc = "done" THEN [pick EXCEPT !.pc = "done", !.ret = scr'.result] ELSE pick

\* getDataWithMethod(preferredMethod) up to its first await of a pending
\* promise: the preferred method if methods[preferredMethod] is truthy,
\* else scrape() at once.  An inherited method returns no promise: the
\* await resumes in the same turn, and getDataWithMethod returns the
\* success result or calls scrape().
CallGetDataWithMethod(preferredMethod) ==
  /\ pick.pc = "idle" /\ scr.pc = "idle"
  /\ CASE preferredMethod = "api" ->
            /\ MakeRequestIn({"cc", "tmc"}, NoOptions)
            /\ Reactions
            /\ pick' = [pc |-> "preferred", preferred |-> preferredMethod, ret |-> NoResult]
            /\ UNCHANGED <<scr, web>>
       [] preferredMethod = "web" ->
            /\ web' = _makeWebRequest(PageOptions)
            /\ pick' = [pc |-> "preferred", preferred |-> preferredMethod, ret |-> NoResult]
            /\ UNCHANGED <<SlotVars, sub, all, scr>>
       [] preferredMethod \in InheritedNames /\ InheritedValid(InheritedCall(preferredMethod)) ->
            /\ pick' = [pc |-> "done", preferred |-> preferredMethod,
                        ret |-> SuccessResult(InheritedCall(preferredMethod).data,
                                              preferredMethod)]
            /\ UNCHANGED <<SlotVars, sub, all, scr, web>>
       [] OTHER ->
            /\ CallScrape
            /\ pick' = [pc |-> "scrape", preferred |-> preferredMethod, ret |-> NoResult]

\* The turn of an event of an API request during getDataWithMethod, g being
\* the calls after the event.  When the preferred _scrapeWithAPI() settles:
\* its snapshot is returned with method 'api' if it is valid, else scrape()
\* is called in the same turn.  During scrape(), scrape() reacts.
PickSlots(g) ==
  CASE pick.pc = "preferred" /\ AllOf(g).status \in {"fulfilled", "rejected"} ->
         IF Qualifies(_scrapeWithAPI(AllOf(g)))
         THEN /\ SetSlots(g)
              /\ Reactions
              /\ pick' = [pick EXCEPT !.pc = "done",
                            !.ret = SuccessResult(_scrapeWithAPI(AllOf(g)).value,
                                                  pick.preferred)]
              /\ UNCHANGED <<scr, web>>
         ELSE /\ ScrapeFrom(g)
              /\ pick' = [pick EXCEPT !.pc = "scrape"]
              /\ web' = web
    [] pick.pc = "scrape" ->
         /\ SetSlots(g)
         /\ Reactions
         /\ ScrapeReaction(scr.pc = StrategyNames[1])
         /\ PickReturn
    [] OTHER ->
         /\ SetSlots(g)
         /\ Reactions
         /\ UNCHANGED <<scr, web, pick>>

\* The turn of an event of the page request during getDataWithMethod, r
\* being what WebDeliver gives.  When it settles: the request of the
\* preferred _scrapeWithWebScraping() (returned with method 'web' if valid,
\* else scrape() is called), or that of scrape()'s second strategy.
PickWeb(r) ==
  CASE ~r.settles ->
         /\ web' = r.web
         /\ UNCHANGED <<SlotVars, sub, all, scr, pick>>
    [] r.settles /\ pick.pc = "preferred" ->
         /\ web' = r.web
         /\ IF Qualifies(r.outcome)
            THEN /\ pick' = [pick EXCEPT !.pc = "done",
                               !.ret = SuccessResult(r.outcome.value, pick.preferred)]
                 /\ UNCHANGED <<SlotVars, sub, all, scr>>
            ELSE /\ ScrapeFrom(Current)
                 /\ pick' = [pick EXCEPT !.pc = "scrape"]
    [] OTHER ->
         /\ WebSettle(r.outcome, r.web)
         /\ PickReturn
         /\ UNCHANGED <<SlotVars, sub, all>>

NextWithMethod ==
  \/ \E preferredMethod \in PreferredMethods :
       CallGetDataWithMethod(preferredMethod) /\ UNCHANGED OtherWithMethod
  \/ \E s \in {"cc", "tmc"}, kind \in EventKinds : \E in \in Inputs(s, kind) :
       /\ CanDeliver(s, kind, in)
       /\ PickSlots(Deliver(s, kind, in))
       /\ UNCHANGED OtherWithMethod
  \/ \E kind \in WebEventKinds : \E in \in WebInputs(kind) :
       /\ WebCanDeliver(kind, in)
       /\ PickWeb(WebDeliver(kind, in))
       /\ UNCHANGED OtherWithMethod

SpecWithMethod == InitWithMethod /\ [][NextWithMethod]_vars

\* ------------------------------------------------ TeleManasDataService
OtherService ==
  <<client, conn, sub, all, opts, reqOpts, pc, attempt, lastError, ret, waited, log, ex,
    scr, web, html, extracted, prev, mock, proxy, tests, pick, doubles>>

InitService ==
  /\ client = Client(0, 0, 0)
  /\ InitCore
  /\ svc \in {Service(o) : o \in {0, 2}}

\* getLatestData(useCache) up to its return from the cache or its await of
\* scrape().
GetLatestData(c, useCache) ==
  /\ svc.calls[c].pc = "idle"
  /\ svc' = IF useCache /\ Fresh(svc.cache, svc.clock, svc.cacheTimeout)
            THEN [svc EXCEPT !.calls[c] = [pc |-> "done", useCache |-> useCache,
                                           ret |-> svc.cache.data, hit |-> TRUE]]
            ELSE [svc EXCEPT !.calls[c] = [pc |-> "scraping", useCache |-> useCache,
                                           ret |-> NoResult, hit |-> FALSE]]

\* scrape() has resolved: store the result when it is a success, return it.
ScrapeResolved(c, result) ==
  /\ svc.calls[c].pc = "scraping"
  /\ svc' = [svc EXCEPT !.cache = StoreAfter(svc.cache, result, svc.clock),
                        !.calls[c].pc = "done", !.calls[c].ret = result]

\* The caller has taken the result; the call slot is free for another call.
TakeResult(c) ==
  /\ svc.calls[c].pc = "done"
  /\ svc' = [svc EXCEPT !.calls[c] = NoCall]

\* Time passes.
Tick ==
  /\ svc.clock < MaxClock
  /\ svc' = [svc EXCEPT !.clock = @ + 1]

NextService ==
  \/ \E c \in Calls, useCache \in BOOLEAN : GetLatestData(c, useCache) /\ UNCHANGED OtherService
  \/ \E c \in Calls, result \in ScrapeOutcomes :
       ScrapeResolved(c, result) /\ UNCHANGED OtherService
  \/ \E c \in Calls : TakeResult(c) /\ UNCHANGED OtherService
  \/ Tick /\ UNCHANGED OtherService

SpecService == InitService /\ [][NextService]_vars

\* ------------------------------------------------------ the mock server
OtherMock ==
  <<client, conn, sub, all, opts, reqOpts, pc, attempt, lastError, ret, waited, log, ex,
    scr, web, html, extracted, prev, svc, proxy, tests, pick, doubles>>

InitMock ==
  /\ client = Client(0, 0, 0)
  /\ InitSlots

\* POST /admin/updateData with this body.
PostUpdateData(body) ==
  mock' = [data |-> updateData(mock.data, body),
           last |-> [op |-> "updateData", body |-> body, before |-> mock.data]]

\* The interval timer fires: updateMockData().
Refresh(hour, random) ==
  mock' = [data |-> updateMockData(mock.data, hour, random),
           last |-> [op |-> "refresh", variation |-> random + hour * 50,
                     before |-> mock.data]]

NextMock ==
  \/ \E body \in UpdateBodies : PostUpdateData(body) /\ UNCHANGED OtherMock
  \/ \E hour \in Hours, random \in Randoms : Refresh(hour, random) /\ UNCHANGED OtherMock

SpecMock == InitMock /\ [][NextMock]_vars

\* ----------------------------------------------------- the proxy server
OtherProxy ==
  <<client, conn, sub, all, opts, reqOpts, pc, attempt, lastError, ret, waited, log, ex,
    scr, web, html, extracted, prev, svc, mock, tests, pick, doubles>>

InitProxy ==
  /\ client = Client(0, 0, 0)
  /\ InitSlots

\* GET /getCallCount or /getTMCCount arrives: makeRequest(url) sends the
\* upstream request with the socket timeout set.
Get(endpoint) ==
  /\ proxy.phase \in {"idle", "answered"} /\ ~proxy.hangup
  /\ proxy.served < MaxRequests
  /\ proxy' = [NoProxy EXCEPT !.phase = "pending", !.endpoint = endpoint,
                              !.timeout = ProxyTimeout, !.served = proxy.served + 1]

\* The upstream status line and headers arrive.
UpstreamHead(status) ==
  /\ proxy.phase = "pending"
  /\ proxy' = [proxy EXCEPT !.phase = "receiving", !.status = status, !.idle = 0]

\* res 'data': a chunk of the body arrives; the socket was active, its
\* timer starts again.
UpstreamChunk ==
  /\ proxy.phase = "receiving"
  /\ proxy' = [proxy EXCEPT !.idle = 0]

\* Time passes without activity on the upstream socket.
IdleTick ==
  /\ proxy.phase \in {"pending", "receiving"}
  /\ proxy.idle < MaxIdle
  /\ proxy' = [proxy EXCEPT !.idle = proxy.idle + 1]

\* res 'end': resolve, and the route answers.
UpstreamEnd(text) ==
  /\ proxy.phase = "receiving"
  /\ proxy' = Settle(proxy, AnswerResolved(Resolved(proxy.status, text)),
                     [kind |-> "end", status |-> proxy.status, text |-> text, name |-> ""])

\* req 'error' (connection refused, reset, closed without a response):
\* reject(error).  Once the response has begun only a reset remains.
UpstreamError(name) ==
  /\ proxy.phase \in {"pending", "receiving"}
  /\ proxy.phase = "receiving" => name = "ECONNRESET"
  /\ proxy' = Settle(proxy, AnswerRejected(proxy.endpoint, SystemError(name)),
                     [kind |-> "error", status |-> 0, text |-> "", name |-> name])

\* req 'timeout' (the socket was idle for the timeout, before or during
\* the response): req.destroy() and reject(new Error('Request timeout')).
UpstreamTimeout ==
  /\ proxy.phase \in {"pending", "receiving"}
  /\ proxy.idle = MaxIdle
  /\ proxy' = [Settle(proxy, AnswerRejected(proxy.endpoint, TimeoutError),
                      [kind |-> "timeout", status |-> 0, text |-> "", name |-> ""])
               EXCEPT !.hangup = (proxy.phase = "pending")]

\* The 'error' event of the request destroyed before its response: reject
\* on the settled promise.
DestroyedRequestError ==
  /\ proxy.phase = "answered" /\ proxy.hangup
  /\ proxy' = [Settle(proxy, AnswerRejected(proxy.endpoint, SystemError("HANGUP")),
                      [kind |-> "error", status |-> 0, text |-> "", name |-> "HANGUP"])
               EXCEPT !.hangup = FALSE]

\* The upstream closes the connection before the body is complete: the
\* response emits 'aborted' and no 'end', the request no 'error'; the socket
\* and its timer are gone.
UpstreamAborted ==
  /\ proxy.phase = "receiving"
  /\ proxy' = [proxy EXCEPT !.phase = "aborted"]

NextProxy ==
  \/ \E endpoint \in Endpoints : Get(endpoint) /\ UNCHANGED OtherProxy
  \/ \E status \in ProxyStatuses : UpstreamHead(status) /\ UNCHANGED OtherProxy
  \/ \E text \in ProxyBodies : UpstreamEnd(text) /\ UNCHANGED OtherProxy
  \/ \E name \in ProxyErrorNames : UpstreamError(name) /\ UNCHANGED OtherProxy
  \/ UpstreamChunk /\ UNCHANGED OtherProxy
  \/ IdleTick /\ UNCHANGED OtherProxy
  \/ UpstreamTimeout /\ UNCHANGED OtherProxy
  \/ DestroyedRequestError /\ UNCHANGED OtherProxy
  \/ UpstreamAborted /\ UNCHANGED OtherProxy

\* Time passes; the socket timer fires once the socket has been idle for
\* the timeout, and a pending event is delivered.  Every chunk starts the
\* timer again, so an upstream that keeps sending chunks is never timed
\* out.
ProxyTimersFire ==
  /\ WF_vars(IdleTick /\ UNCHANGED OtherProxy)
  /\ WF_vars(UpstreamTimeout /\ UNCHANGED OtherProxy)
  /\ WF_vars(DestroyedRequestError /\ UNCHANGED OtherProxy)

SpecProxy == InitProxy /\ [][NextProxy]_vars /\ ProxyTimersFire

\* ------------------------------------------------- claims on makeRequest
R == "req"

\* Sum of the backoff waits that precede attempt n: retryDelay * (2^(n-1) - 1).
WaitBefore(n) == client.retryDelay * (2^(n - 1) - 1)

Finished(s) == pc[s] \in {"returned", "thrown"}

\* C1: an attempt that received a response with status in [200,300) is the
\* last one: the call has returned that response with ok = TRUE, at that
\* attempt number, having waited only for the backoffs before it.
C1_OkReturnedAtOnce ==
  \A i \in 1..Len(log[R]) :
    (log[R][i].kind = "response" /\ log[R][i].status \in 200..299) =>
      /\ i = Len(log[R]) /\ attempt[R] = i
      /\ pc[R] = "returned"
      /\ ret[R].kind = "response"
      /\ ret[R].response.ok
      /\ ret[R].response.status = log[R][i].status
      /\ waited[R] = WaitBefore(i)

C1_Witness ==
  /\ pc[R] = "returned" /\ ret[R].response.status = 299
  /\ attempt[R] = client.maxRetries /\ client.maxRetries >= 2

\* C2: an attempt that received a response with status in [400,500) is the
\* last one: the call has returned that response (ok = FALSE), not thrown,
\* with no later attempt and no wait after it.
C2_ClientErrorReturnedAtOnce ==
  \A i \in 1..Len(log[R]) :
    (log[R][i].kind = "response" /\ log[R][i].status \in 400..499) =>
      /\ i = Len(log[R]) /\ attempt[R] = i
      /\ pc[R] = "returned"
      /\ ret[R].kind = "response"
      /\ ~ret[R].response.ok
      /\ ret[R].response.status = log[R][i].status
      /\ waited[R] = WaitBefore(i)

C2_Witness ==
  /\ pc[R] = "returned" /\ ret[R].response.status = 400
  /\ attempt[R] = 1 /\ client.maxRetries >= 3

\* C3: an attempt that failed with ECONNREFUSED, ENOTFOUND or ECONNRESET is
\* the last one: the call has thrown that very error, with no wait after it;
\* on attempt 1 this gives exactly one attempt.
C3_NonRetryableStops ==
  \A i \in 1..Len(log[R]) :
    (log[R][i].kind = "error"
       /\ log[R][i].name \in {"ECONNREFUSED", "ENOTFOUND", "ECONNRESET", "HANGUP"}) =>
      /\ i = Len(log[R]) /\ attempt[R] = i
      /\ pc[R] = "thrown"
      /\ ret[R] = Thrown(SystemError(log[R][i].name))
      /\ waited[R] = WaitBefore(i)

C3_Witness ==
  /\ pc[R] = "thrown" /\ log[R] = <<LogError("ECONNREFUSED")>>
  /\ client.maxRetries >= 3

\* C4: an attempt that timed out was aborted before any response, and it is
\* the last one: the call has thrown the timeout error right after it.
C4_TimeoutStops ==
  \A i \in 1..Len(log[R]) :
    log[R][i].kind = "timeout" =>
      /\ i = Len(log[R]) /\ attempt[R] = i
      /\ pc[R] = "thrown"
      /\ ret[R] = Thrown(Err("", "Request timeout"))
      /\ ex[R].aborted /\ ex[R].phase = "settled" /\ ex[R].status = 0
      /\ waited[R] = WaitBefore(i)

C4_Witness ==
  /\ pc[R] = "thrown" /\ Len(log[R]) = 2 /\ log[R][2].kind = "timeout"
  /\ client.maxRetries >= 3

\* The error makeRequest records for a failed attempt of the given log entry.
ErrorOfEntry(e) ==
  IF e.kind = "response"
  THEN Err("", "HTTP " \o ToString(e.status) \o ": " \o StatusMessage(e.status))
  ELSE SystemError(e.name)

Transient(e) ==
  \/ e.kind = "response" /\ e.status >= 500
  \/ e.kind = "error" /\ e.name = "ETIMEDOUT"

\* C5: a finished call all of whose attempts ended in a status >= 500
\* response or a retryable transport error made exactly maxRetries attempts
\* and threw the error of the last attempt; a returned response is never 5xx.
C5_ExhaustedThrowsLast ==
  /\ (Finished(R) /\ \A i \in 1..Len(log[R]) : Transient(log[R][i])) =>
       /\ pc[R] = "thrown"
       /\ Len(log[R]) = client.maxRetries
       /\ ret[R] = Thrown(ErrorOfEntry(log[R][Len(log[R])]))
  /\ ret[R].kind = "response" => ret[R].response.status < 500

C5_Witness ==
  /\ pc[R] = "thrown" /\ Len(log[R]) = 3
  /\ log[R][1] = LogResponse(500) /\ log[R][2] = LogError("ETIMEDOUT")
  /\ log[R][3] = LogResponse(503)

\* C6: the wait after failed attempt k is retryDelay * 2^(k-1), it happens
\* only for k < maxRetries, and none follows the last attempt; 503 on
\* attempts 1..maxRetries-1 and 200 on attempt maxRetries gives the ok
\* response after retryDelay * (2^(maxRetries-1) - 1) ms of waiting.
C6_Backoff ==
  /\ pc[R] = "backoff" =>
       /\ attempt[R] < client.maxRetries
       /\ waited[R] = WaitBefore(attempt[R]) + client.retryDelay * 2^(attempt[R] - 1)
  /\ pc[R] = "await" => Len(log[R]) = attempt[R] - 1 /\ waited[R] = WaitBefore(attempt[R])
  /\ Finished(R) => Len(log[R]) <= client.maxRetries /\ waited[R] = WaitBefore(Len(log[R]))
  /\ ( /\ Len(log[R]) = client.maxRetries
       /\ \A i \in 1..(client.maxRetries - 1) : log[R][i] = LogResponse(503)
       /\ log[R][client.maxRetries] = LogResponse(200) ) =>
       /\ ret[R].kind = "response" /\ ret[R].response.ok
       /\ waited[R] = client.retryDelay * (2^(client.maxRetries - 1) - 1)

C6_Witness ==
  /\ pc[R] = "returned" /\ client.maxRetries = 3
  /\ log[R] = <<LogResponse(503), LogResponse(503), LogResponse(200)>>
  /\ waited[R] = 3 * client.retryDelay

\* The caller's header overrides: options.headers, or none.
OverridesOf(options) == IF Has(options, "headers") THEN options["headers"] ELSE EmptyObj

\* C7: the headers sent are the default headers with the caller's overrides
\* merged on top: every default header not overridden keeps its default
\* value and every overridden key carries the caller's value.
C7_HeadersMerged ==
  ex[R].phase # "none" =>
    /\ \A k \in DOMAIN defaultHeaders :
         ~Has(OverridesOf(opts[R]), k) =>
           Has(ex[R].headers, k) /\ ex[R].headers[k] = defaultHeaders[k]
    /\ \A k \in DOMAIN OverridesOf(opts[R]) :
         Has(ex[R].headers, k) /\ ex[R].headers[k] = OverridesOf(opts[R])[k]

\* C8: an attempt whose body is not valid JSON settles as a response, its
\* data the raw text and ok following the status alone: with a 2xx status
\* the call returns it with ok = TRUE at that attempt, with a 4xx status it
\* returns it with ok = FALSE, and otherwise the recorded failure is the
\* HTTP status, not the body.
C8_MalformedBodyIsNoFailure ==
  ( /\ ex[R].phase = "settled" /\ ex[R].status # 0 /\ Len(log[R]) > 0
    /\ log[R][Len(log[R])].kind = "response"
    /\ ex[R].body \in {BodyHtml, BodyNone} ) =>
      IF ex[R].status \in 200..299 \/ ex[R].status \in 400..499
      THEN /\ pc[R] = "returned" /\ attempt[R] = Len(log[R])
           /\ ret[R].response.ok = (ex[R].status \in 200..299)
           /\ ret[R].response.status = ex[R].status
           /\ ret[R].response.data = DText(ex[R].body)
      ELSE /\ pc[R] \in {"backoff", "thrown"}
           /\ lastError[R] = Err("", "HTTP " \o ToString(ex[R].status) \o ": "
                                        \o StatusMessage(ex[R].status))

C8_Witness ==
  /\ pc[R] = "returned" /\ ex[R].body = BodyHtml /\ ex[R].status = 200
  /\ ret[R].response.ok /\ ret[R].response.data = DText(BodyHtml)
  /\ attempt[R] = 2

\* ------------------------------------- claims on the derived operations
Settled(p) == p.status \in {"fulfilled", "rejected"}
OkReturned(s) == pc[s] = "returned" /\ ret[s].response.ok
Zero == JStr("0")

\* The body's value of a field, or "0" when the body has no such field.
FieldOrZeroIfAbsent(data, key) ==
  IF data.t = "object" /\ key \in DOMAIN data.o THEN data.o[key] ELSE Zero

\* The body's value of a field when it is truthy, else "0".
FieldOrZeroIfFalsy(data, key) ==
  IF data.t = "object" /\ key \in DOMAIN data.o /\ Truthy(data.o[key])
  THEN data.o[key] ELSE Zero

\* Both sub-calls return a value exactly when their request returned an ok
\* response, and fail with the request's error when the request threw.
SubCallsFollowRequest ==
  \A s \in {"cc", "tmc"} :
    /\ sub[s].status = "fulfilled" <=> OkReturned(s)
    /\ sub[s].status = "rejected" <=> (Finished(s) /\ ~OkReturned(s))
    /\ pc[s] = "thrown" => sub[s].error = ret[s].error

\* C9 as claimed: each extracted field is the body's value, or "0" when the
\* field is absent.
C9_AbsentOnly ==
  /\ SubCallsFollowRequest
  /\ sub.cc.status = "fulfilled" =>
       sub.cc.value = FieldOrZeroIfAbsent(ret["cc"].response.data, "Total_Calls")
  /\ sub.tmc.status = "fulfilled" =>
       /\ sub.tmc.value.teleManasCells = FieldOrZeroIfAbsent(ret["tmc"].response.data, "TMC")
       /\ sub.tmc.value.mentoringInstitutes = FieldOrZeroIfAbsent(ret["tmc"].response.data, "MI")
       /\ sub.tmc.value.regionalCoordinatingCenters =
            FieldOrZeroIfAbsent(ret["tmc"].response.data, "RCC")

\* C9 (amended): getCallCount and getTMCData return a value exactly when the
\* request returned an ok response; each extracted field is then the body's
\* value when that value is truthy and "0" when the field is absent or falsy
\* (0, ""); they fail with the request's own error when the request threw, and
\* with a new error naming the status when it returned a non-ok response.
C9_ExtractOrZero ==
  /\ SubCallsFollowRequest
  /\ sub.cc.status = "fulfilled" =>
       sub.cc.value = FieldOrZeroIfFalsy(ret["cc"].response.data, "Total_Calls")
  /\ sub.tmc.status = "fulfilled" =>
       /\ sub.tmc.value.teleManasCells = FieldOrZeroIfFalsy(ret["tmc"].response.data, "TMC")
       /\ sub.tmc.value.mentoringInstitutes = FieldOrZeroIfFalsy(ret["tmc"].response.data, "MI")
       /\ sub.tmc.value.regionalCoordinatingCenters =
            FieldOrZeroIfFalsy(ret["tmc"].response.data, "RCC")
  /\ (pc["cc"] = "returned" /\ ~ret["cc"].response.ok) =>
       sub.cc.error = Err("", "Failed to get call count: "
                                  \o ToString(ret["cc"].response.status))
  /\ (pc["tmc"] = "returned" /\ ~ret["tmc"].response.ok) =>
       sub.tmc.error = Err("", "Failed to get TMC data: "
                                   \o ToString(ret["tmc"].response.status))

C9_Witness ==
  /\ sub.cc.status = "fulfilled" /\ ex["cc"].body = BodyCallsZero /\ sub.cc.value = Zero
  /\ sub.tmc.status = "rejected" /\ pc["tmc"] = "returned" /\ ret["tmc"].response.status = 404

\* C10: getAllData never rejects; once both sub-calls have settled it has
\* returned, and when both failed all four fields of the snapshot are "0".
C10_GetAllDataNeverRejects ==
  /\ all.status # "rejected"
  /\ (Settled(sub.cc) /\ Settled(sub.tmc)) => all.status = "fulfilled"
  /\ (sub.cc.status = "rejected" /\ sub.tmc.status = "rejected") =>
       all.value = [totalCalls |-> Zero, teleManasCells |-> Zero,
                    mentoringInstitutes |-> Zero, regionalCoordinatingCenters |-> Zero]

C10_Witness ==
  /\ all.status = "fulfilled"
  /\ sub.cc.status = "rejected" /\ pc["cc"] = "thrown"
  /\ sub.tmc.status = "rejected" /\ pc["tmc"] = "returned"
  /\ all.value.totalCalls = Zero /\ all.value.regionalCoordinatingCenters = Zero

\* Everything one sub-request of getAllData owns.
SlotState(s) ==
  <<pc[s], attempt[s], lastError[s], ret[s], waited[s], log[s], ex[s], sub[s]>>

OtherSlot(s) == IF s = "cc" THEN "tmc" ELSE "cc"

\* Once getAllData was called both sub-requests are under way, it returns
\* only after both have settled, and each field comes from its own sub-call
\* (the value when that sub-call succeeded, "0" when it failed).
C11_JoinedResult ==
  /\ all.status # "idle" => \A s \in {"cc", "tmc"} : pc[s] # "idle" /\ sub[s].status # "none"
  /\ all.status \in {"fulfilled", "rejected"} => Settled(sub.cc) /\ Settled(sub.tmc)
  /\ all.status = "fulfilled" =>
       /\ all.value.totalCalls =
            IF sub.cc.status = "fulfilled" THEN sub.cc.value ELSE Zero
       /\ all.value.teleManasCells =
            IF sub.tmc.status = "fulfilled" THEN sub.tmc.value.teleManasCells ELSE Zero
       /\ all.value.mentoringInstitutes =
            IF sub.tmc.status = "fulfilled" THEN sub.tmc.value.mentoringInstitutes ELSE Zero
       /\ all.value.regionalCoordinatingCenters =
            IF sub.tmc.status = "fulfilled"
            THEN sub.tmc.value.regionalCoordinatingCenters ELSE Zero
  /\ \A s \in {"cc", "tmc"} :
       (Finished(s) /\ \A i \in 1..Len(log[s]) :
                         \/ log[s][i].kind = "response" /\ log[s][i].status >= 500
                         \/ log[s][i].kind = "error" /\ log[s][i].name = "ETIMEDOUT")
         => Len(log[s]) = client.maxRetries

\* A step of a running sub-request, whatever its outcome, leaves the other
\* sub-request exactly as it was.
C11_StepIsLocal ==
  \A s \in {"cc", "tmc"} :
    (pc[s] # "idle" /\ SlotState(s)' # SlotState(s)) =>
      SlotState(OtherSlot(s))' = SlotState(OtherSlot(s))

\* C11: in getAllData both sub-requests are started and each runs to its own
\* settlement under every interleaving: the failure or settlement of one
\* never changes, shortens or ends the other, the result is produced only
\* after both have settled, and a failed sub-request zeroes only its own
\* fields.
C11_SubRequestsIndependent == []C11_JoinedResult /\ [][C11_StepIsLocal]_vars

C11_Witness ==
  /\ all.status = "fulfilled" /\ client.maxRetries = 3
  /\ sub.cc.status = "rejected" /\ log["cc"] = <<LogError("ECONNREFUSED")>>
  /\ sub.tmc.status = "fulfilled" /\ Len(log["tmc"]) = 3
  /\ all.value.totalCalls = Zero /\ all.value.teleManasCells = JStr("53")

\* C12: testConnection never rejects; it has returned once its request has
\* finished, and its value is true exactly when the request returned a
\* response with a 2xx status: a 4xx response, 5xx on every attempt, a
\* transport error and a timeout all give false.
C12_TestConnection ==
  /\ conn.status # "rejected"
  /\ Finished(R) <=> conn.status = "fulfilled"
  /\ conn.status = "fulfilled" =>
       conn.value = (pc[R] = "returned" /\ ret[R].response.status \in 200..299)
  /\ (Len(log[R]) > 0 /\ log[R][Len(log[R])].kind \in {"timeout", "error"} /\ Finished(R))
       => conn.value = FALSE

C12_Witness ==
  /\ conn.status = "fulfilled" /\ conn.value = FALSE
  /\ pc[R] = "thrown" /\ Len(log[R]) = 3 /\ log[R][3] = LogResponse(503)
\* ------------------------------------------------------------ scrape()
ScrapeDone == scr.pc = "done"
ApiSettled == all.status \in {"fulfilled", "rejected"}
\* The page request has settled and its caller has resumed (after a timeout
\* that is when the aborted request's 'error' event has run).
WebOver == web.phase = "settled" /\ ~web.abortPending
\* The page request rejected, or its response was not ok: the Web Scraping
\* strategy threw.
WebThrew == WebOver /\ (web.error # NoError \/ ~(web.status \in 200..299))
WebReturned == WebOver /\ web.error = NoError /\ web.status \in 200..299

\* At least one field of the snapshot differs from "0" and from 0.
SomeNonZero(data) == \E k \in DOMAIN data : data[k] \notin {JStr("0"), JNum(0)}

\* The snapshot with totalCalls "500" and the other fields "0".
Only500 == [_getZeroData EXCEPT !.totalCalls = JStr("500")]

\* The snapshot written in each page of WebDocs, read off its text: the
\* empty page, the malformed script and the script with a raw control
\* character give nothing.
PageSnapshot(doc) ==
  CASE doc = FragScript500 -> Only500
    [] doc = FragTotalTag -> [_getZeroData EXCEPT !.totalCalls = JStr("1234")]
    [] doc = FragScriptOdd ->
         [_getZeroData EXCEPT !.totalCalls = JStr("N/A"), !.mentoringInstitutes = JStr("7")]
    [] doc = FragScriptNumbers ->
         [totalCalls |-> JStr("-5"), teleManasCells |-> JStr("1.5"),
          mentoringInstitutes |-> JStr("1,2"), regionalCoordinatingCenters |-> JStr("1000")]
    [] OTHER -> _getZeroData

\* C13: scrape() never rejects; whatever the transport and the two
\* strategies do, it settles by resolving, and its result always has
\* success, data and timestamp.
C13_ScrapeNeverRejects ==
  /\ \A i \in 1..Len(StrategyNames) :
       \A outcome \in {Value(_getZeroData), Value(Only500), Null, Threw(WebTimeoutError)} :
         AfterStrategy(i, outcome).status # "rejected"
  /\ AfterStrategy(1, Null).pc = StrategyNames[2]
  /\ AfterStrategy(2, Null).result = FailureResult
  /\ scr.status # "rejected"
  /\ ScrapeDone <=> scr.status = "fulfilled"
  /\ ScrapeDone => /\ {"success", "data", "timestamp"} \subseteq DOMAIN scr.result
                   /\ scr.result.success \in BOOLEAN
                   /\ DOMAIN scr.result.data = DOMAIN _getZeroData
                   /\ scr.result.timestamp = Now

\* scrape() has resolved after the page request timed out.
C13_Witness ==
  /\ ScrapeDone /\ scr.status = "fulfilled"
  /\ web.error = WebTimeoutError /\ web.aborted
  /\ scr.result.success = FALSE

\* C14: the strategies run in the order Direct API Calls, Web Scraping; the
\* first whose snapshot has a field other than "0" and 0 ends scrape() with
\* {success: true, data: that snapshot, method: its name}; Web Scraping is
\* not started before Direct API Calls has settled, and never when Direct
\* API Calls qualified.
C14_FirstQualifying ==
  /\ web.phase # "none" => ApiSettled /\ ~SomeNonZero(all.value)
  /\ scr.pc = StrategyNames[1] <=> all.status = "pending"
  /\ scr.pc = StrategyNames[2] <=> (web.phase # "none" /\ ~WebOver)
  /\ (all.status = "fulfilled" /\ SomeNonZero(all.value)) =>
       /\ ScrapeDone /\ web.phase = "none"
       /\ scr.result.success = TRUE
       /\ scr.result.data = all.value
       /\ scr.result.method = "Direct API Calls"
  /\ (WebReturned /\ SomeNonZero(PageSnapshot(web.data))) =>
       /\ ScrapeDone
       /\ scr.result.success = TRUE
       /\ scr.result.data = PageSnapshot(web.data)
       /\ scr.result.method = "Web Scraping"
  /\ (ScrapeDone /\ scr.result.success) =>
       \/ all.status = "fulfilled" /\ SomeNonZero(all.value)
       \/ WebReturned /\ SomeNonZero(PageSnapshot(web.data))
  /\ (WebReturned /\ web.data = FragScriptNumbers) =>
       /\ scr.result.method = "Web Scraping"
       /\ scr.result.data.totalCalls = JStr("-5")
       /\ scr.result.data.regionalCoordinatingCenters = JStr("1000")

\* Direct API Calls qualified with one sub-request failed: scrape() is done
\* and no page request was made.
C14_Witness ==
  /\ ScrapeDone /\ scr.result.success
  /\ scr.result.method = "Direct API Calls"
  /\ scr.result.data.totalCalls = JStr("2821889")
  /\ scr.result.data.teleManasCells = JStr("0")
  /\ web.phase = "none"
\* C15: an all-zero snapshot does not count as success: no successful
\* result carries the all-zero snapshot, and when Direct API Calls returned
\* all zeros and Web Scraping returned totalCalls "500" with the other
\* fields "0", scrape() returns success, method "Web Scraping" and
\* data.totalCalls "500".
C15_AllZeroIsNoSuccess ==
  /\ (ScrapeDone /\ scr.result.success) => scr.result.data # _getZeroData
  /\ (all.status = "fulfilled" /\ all.value = _getZeroData) =>
       scr.pc # "idle" /\ web.phase # "none"
  /\ (all.status = "fulfilled" /\ all.value = _getZeroData /\ WebReturned
        /\ PageSnapshot(web.data) = Only500) =>
       /\ ScrapeDone
       /\ scr.result.success = TRUE
       /\ scr.result.method = "Web Scraping"
       /\ scr.result.data.totalCalls = JStr("500")
  /\ (WebReturned /\ web.data \in {<<>>, FragScriptBad, FragScriptControl}) =>
       ScrapeDone /\ scr.result.success = FALSE

C15_Witness ==
  /\ ScrapeDone
  /\ all.value = _getZeroData
  /\ web.data = FragScript500 /\ WebReturned
  /\ scr.result.method = "Web Scraping"
  /\ scr.result.data = Only500

\* Every attempt of the sub-request in slot s was answered with HTTP 500.
All500(s) ==
  /\ Len(log[s]) = client.maxRetries
  /\ \A i \in 1..Len(log[s]) : log[s][i] = LogResponse(500)

\* C16: when neither strategy yields a snapshot with a non-zero field,
\* scrape() returns {success: false, error: "All scraping strategies
\* failed", data: the all-zero snapshot}; so it does when every request is
\* answered with HTTP 500.
C16_ExhaustedResult ==
  /\ (ApiSettled /\ ~SomeNonZero(all.value) /\
        (WebThrew \/ (WebReturned /\ ~SomeNonZero(PageSnapshot(web.data))))) =>
       /\ ScrapeDone
       /\ scr.result.success = FALSE
       /\ scr.result.error = "All scraping strategies failed"
       /\ scr.result.data = _getZeroData
  /\ (ScrapeDone /\ ~scr.result.success) =>
       /\ scr.result.error = "All scraping strategies failed"
       /\ scr.result.data = _getZeroData
       /\ ~SomeNonZero(all.value)
  /\ (WebReturned /\ web.data = FragScriptControl) =>
       ScrapeDone /\ scr.result = FailureResult
  /\ (All500("cc") /\ All500("tmc") /\ web.phase = "settled" /\ web.status = 500) =>
       /\ ScrapeDone
       /\ scr.result.success = FALSE
       /\ \A k \in DOMAIN scr.result.data : scr.result.data[k] = JStr("0")

C16_Witness ==
  /\ All500("cc") /\ All500("tmc") /\ client.maxRetries = 2
  /\ web.phase = "settled" /\ web.status = 500 /\ web.error = NoError
  /\ ScrapeDone /\ scr.result.success = FALSE

\* The double of _scrapeWithAPI threw; _scrapeWithWebScraping threw, its
\* page request rejected or answered with a status that is not ok.
ApiThrew == doubles.api.kind = "throw"
PageThrew ==
  \/ doubles.page.kind = "rejected"
  \/ doubles.page.kind = "resolved" /\ ~(doubles.page.status \in 200..299)

\* C17: a strategy that throws does not end scrape(): scrape() never
\* rejects; once Direct API Calls has thrown, Web Scraping is tried, and
\* what it finds is returned; once Web Scraping, the last strategy, has
\* thrown, scrape() resolves with the failure result.
C17_ThrowIsCaught ==
  /\ scr.status # "rejected"
  /\ ApiThrew => doubles.page.kind # "none"
  /\ (ApiThrew /\ doubles.page.kind = "pending") =>
       scr.pc = StrategyNames[2] /\ scr.status = "pending"
  /\ (ApiThrew /\ doubles.page.kind = "resolved" /\ doubles.page.status = 200
        /\ html = <<FragScript500>>) =>
       /\ ScrapeDone /\ scr.status = "fulfilled"
       /\ scr.result.success = TRUE
       /\ scr.result.method = "Web Scraping"
       /\ scr.result.data = Only500
  /\ PageThrew => /\ ScrapeDone /\ scr.status = "fulfilled"
                   /\ scr.result.success = FALSE
                   /\ scr.result.error = "All scraping strategies failed"
                   /\ scr.result.data = _getZeroData

\* Direct API Calls threw, and Web Scraping, tried next, found a count.
C17_Witness ==
  /\ ApiThrew /\ doubles.api.error = TimeoutError
  /\ doubles.page.kind = "resolved" /\ html = <<FragScript500>>
  /\ ScrapeDone /\ scr.result.success /\ scr.result.method = "Web Scraping"

\* C18: in every result of scrape(), method is present exactly when
\* success is true and error exactly when success is false.
C18_MethodXorError ==
  ScrapeDone =>
    /\ ("method" \in DOMAIN scr.result) <=> (scr.result.success = TRUE)
    /\ ("error" \in DOMAIN scr.result) <=> (scr.result.success = FALSE)

\* A successful result of Web Scraping from a tag with a number.
C18_Witness ==
  /\ ScrapeDone /\ scr.result.success
  /\ "method" \in DOMAIN scr.result /\ scr.result.method = "Web Scraping"
  /\ web.data = FragTotalTag
  /\ scr.result.data.totalCalls = JStr("1234")
\* The numbers whose decimal numerals occur in the bodies and documents of
\* this model.
Numerals == {0, 3, 5, 7, 9, 23, 42, 53, 77, 500, 1234, 2821889}

\* v is a non-empty string of decimal digits.
IsNumericString(v) == v.t = "string" /\ \E n \in Numerals : v.s = ToString(n)

NumericSnapshot(data) == \A k \in DOMAIN data : IsNumericString(data[k])

\* C19: every field of every snapshot produced by getAllData, by HTML
\* extraction and by scrape() is a non-empty string of decimal digits,
\* whatever body the server sends.
C19_FieldsAreNumericStrings ==
  /\ all.status = "fulfilled" => NumericSnapshot(all.value)
  /\ WebReturned => NumericSnapshot(_extractDataFromHTML(JText(web.data)).value)
  /\ ScrapeDone => NumericSnapshot(scr.result.data)
\* ------------------------------------------------- _extractDataFromHTML
ScriptFragments ==
  {FragScriptJson, FragScript500, FragScriptOdd, FragScriptFalsy, FragScriptBad,
   FragScriptCase, FragScriptLines, FragScriptTab, FragScriptEscape, FragScriptControl,
   FragScriptNumbers, FragScriptUnicode, FragScriptLeadingZero}

\* The script fragments whose text between the braces is no JSON: a bare
\* word, a literal in the wrong case, a raw tab or a raw U+000B inside a
\* string, a number with a leading zero.
Malformed ==
  {FragScriptBad, FragScriptCase, FragScriptTab, FragScriptControl, FragScriptLeadingZero}
WellFormed(f) == f \notin Malformed

\* The object literal written in each well-formed script fragment, read off
\* the text; a number or an array stands as the text String() gives for it.
LiteralOf(f) ==
  CASE f = FragScriptJson ->
         [k \in {"Total_Calls", "TMC"} |-> IF k = "TMC" THEN JStr("3") ELSE JStr("42")]
    [] f = FragScript500 -> [k \in {"Total_Calls"} |-> JStr("500")]
    [] f = FragScriptOdd ->
         [k \in {"Total_Calls", "MI"} |-> IF k = "MI" THEN JStr("7") ELSE JStr("N/A")]
    [] f = FragScriptFalsy ->
         [k \in {"Total_Calls", "TMC", "MI"} |->
            CASE k = "Total_Calls" -> JStr("9") [] k = "TMC" -> JStr("") [] k = "MI" -> JBool(FALSE)]
    [] f = FragScriptLines -> [k \in {"Total_Calls"} |-> JStr("5")]
    [] f = FragScriptEscape ->
         [k \in {"Total_Calls", "TMC"} |-> IF k = "TMC" THEN JStr("\"8\"") ELSE JStr("6\n")]
    [] f = FragScriptNumbers ->
         [k \in {"Total_Calls", "TMC", "MI", "RCC"} |->
            CASE k = "Total_Calls" -> JStr("-5") [] k = "TMC" -> JStr("1.5")
              [] k = "MI" -> JStr("1,2") [] k = "RCC" -> JStr("1000")]
    [] f = FragScriptUnicode ->
         [k \in {"Total_Calls", "TMC"} |-> IF k = "TMC" THEN JStr("\\u0008") ELSE JStr("42")]
    [] OTHER -> EmptyObj

\* The field for key after the script blocks fs, when every well-formed
\* literal that has the key (copies = "present") or has it with a truthy
\* value (copies = "truthy") sets the field, later blocks overwriting earlier
\* ones.
RECURSIVE FieldAfter(_, _, _)
FieldAfter(fs, key, copies) ==
  IF fs = <<>> THEN JStr("0")
  ELSE LET f == fs[Len(fs)]
           sets == /\ WellFormed(f) /\ Has(LiteralOf(f), key)
                   /\ copies = "truthy" => Truthy(LiteralOf(f)[key])
       IN IF sets THEN JStr(String(LiteralOf(f)[key]))
          ELSE FieldAfter(SubSeq(fs, 1, Len(fs) - 1), key, copies)

OnlyScripts == \A i \in 1..Len(html) : html[i] \in ScriptFragments

ExtractedAs(copies) ==
  \A i \in 1..Len(JsonFields) :
    extracted.data[JsonFields[i].field] = FieldAfter(html, JsonFields[i].key, copies)

\* C20 as stated: extraction copies every key present in a script block's
\* object literal into the snapshot and leaves absent keys at "0"; a
\* malformed candidate is skipped; the sample document gives "42", "3",
\* "0", "0".
C20_CopiesPresentKeys ==
  (extracted.done /\ OnlyScripts) => ExtractedAs("present")

\* C20: extraction copies, as String(value), every key of a script block's
\* object literal whose value is truthy; a key that is absent or has a falsy
\* value leaves the field as it was ("0" at the start); a malformed
\* candidate is skipped without disturbing the others; the document
\* <script>{"Total_Calls":"42","TMC":"3"}</script> gives totalCalls "42",
\* teleManasCells "3" and the other two "0".
C20_CopiesTruthyKeys ==
  /\ (extracted.done /\ OnlyScripts) => ExtractedAs("truthy")
  /\ (extracted.done /\ html = <<FragScriptJson>>) =>
       extracted.data = [totalCalls |-> JStr("42"), teleManasCells |-> JStr("3"),
                         mentoringInstitutes |-> JStr("0"),
                         regionalCoordinatingCenters |-> JStr("0")]
  /\ (extracted.done /\ Len(html) = 1 /\ html[1] \in Malformed) =>
       extracted.data = _getZeroData
  /\ (extracted.done /\ Len(html) = 2 /\ html[1] \in Malformed /\ html[2] = FragScript500) =>
       extracted.data = Only500
  /\ (extracted.done /\ Len(html) = 2 /\ html[1] = FragScript500 /\ html[2] \in Malformed) =>
       extracted.data = Only500
  /\ (extracted.done /\ html = <<FragScriptNumbers>>) =>
       extracted.data = [totalCalls |-> JStr("-5"), teleManasCells |-> JStr("1.5"),
                         mentoringInstitutes |-> JStr("1,2"),
                         regionalCoordinatingCenters |-> JStr("1000")]
  /\ (extracted.done /\ html = <<FragScriptUnicode>>) =>
       /\ extracted.data.totalCalls = JStr("42")
       /\ extracted.data.teleManasCells = JStr("\\u0008")

\* The sample document extracted after a malformed block.
C20_Witness ==
  /\ extracted.done /\ html = <<FragScriptBad, FragScriptJson>>
  /\ extracted.data.totalCalls = JStr("42")
  /\ extracted.data.teleManasCells = JStr("3")
  /\ extracted.data.mentoringInstitutes = JStr("0")
\* C21: in the label fallback a captured digit group is stored without its
\* commas, and only if what is left is non-empty and numeric; the text
\* "Total Calls: 1,234" yields totalCalls "1234".
C21_LabelFallback ==
  /\ (extracted.done /\ html = <<FragTotalTag>>) => extracted.data.totalCalls = JStr("1234")
  /\ (extracted.done /\ html = <<FragPlainText>>) => extracted.data.totalCalls = JStr("1234")
\* The patterns for this field that match the document with a capture that
\* is numeric once its commas are gone, by their place in the list.
MatchingPatterns(d, field) ==
  {n \in 1..Len(Patterns) :
     /\ Patterns[n].field = field
     /\ StripCommas(Capture(d, Patterns[n].label)) # <<>>
     /\ IsNumeric(StripCommas(Capture(d, Patterns[n].label)))}

MaxOf(S) == CHOOSE x \in S : \A y \in S : x >= y

\* The key of the script JSON that is copied into the field.
KeyOf(field) ==
  CASE field = "totalCalls" -> "Total_Calls" [] field = "teleManasCells" -> "TMC"
    [] field = "mentoringInstitutes" -> "MI" [] field = "regionalCoordinatingCenters" -> "RCC"

\* C22: for each field the last pattern of the list that matches with a
\* numeric capture decides, over earlier patterns and over the script JSON
\* value; a field no pattern matches keeps its script JSON value, else "0".
C22_LastPatternWins ==
  (extracted.done /\ html # NotAString) =>
    /\ \A field \in DOMAIN _getZeroData :
         LET d == Document(html)
             P == MatchingPatterns(d, field)
         IN extracted.data[field] =
              IF P # {}
              THEN JStr(Join(StripCommas(Capture(d, Patterns[MaxOf(P)].label))))
              ELSE FieldAfter(SelectSeq(html, LAMBDA f : f \in ScriptFragments),
                              KeyOf(field), "truthy")
    /\ html = <<FragTotalTag, FragCallsTag>> => extracted.data.totalCalls = JStr("77")
    /\ html = <<FragCallsTag, FragTotalTag>> => extracted.data.totalCalls = JStr("77")
    /\ html = <<FragScriptJson, FragCallsTag>> =>
         /\ extracted.data.totalCalls = JStr("77")
         /\ extracted.data.teleManasCells = JStr("3")
    /\ html = <<FragScriptJson, FragLabelOnly>> =>
         /\ extracted.data.totalCalls = JStr("42")
         /\ extracted.data.regionalCoordinatingCenters = JStr("0")

\* A Calls tag after a script block: the pattern beats the JSON value of
\* totalCalls, teleManasCells keeps its JSON value.
C22_Witness ==
  /\ extracted.done /\ html = <<FragScriptJson, FragCallsTag>>
  /\ extracted.data.totalCalls = JStr("77")
  /\ extracted.data.teleManasCells = JStr("3")
\* C23: when extraction cannot process its argument at all it returns null,
\* not the all-zero snapshot, and scrape() takes the strategy as failed: it
\* resolves with the failure result, and no successful result carries null
\* in place of a snapshot.
C23_NullIsFailure ==
  /\ (extracted.done /\ html = NotAString) =>
       extracted.kind = "null" /\ extracted.data # _getZeroData
  /\ (extracted.done /\ html # NotAString) => extracted.kind = "value"
  /\ extracted.kind = "null" =>
       /\ ScrapeDone /\ scr.status = "fulfilled"
       /\ scr.result.success = FALSE
       /\ scr.result.error = "All scraping strategies failed"
       /\ scr.result.data = _getZeroData
  /\ doubles.api.kind = "null" => doubles.page.kind # "none"
  /\ (ScrapeDone /\ scr.result.success) =>
       /\ scr.result.data # NoSnapshot
       /\ \/ doubles.api.kind = "value" /\ scr.result.data = doubles.api.value
          \/ extracted.kind = "value" /\ scr.result.data = extracted.data

\* The page request resolved with status 200 and no text: extraction
\* returned null and scrape() the failure result.
C23_Witness ==
  /\ doubles.page.kind = "resolved" /\ doubles.page.status = 200
  /\ extracted.done /\ html = NotAString /\ extracted.kind = "null"
  /\ ScrapeDone /\ scr.result.success = FALSE
\* The page request is sent once, with GET, when the second strategy
\* starts; when it is over, scrape() is over.
C24_OneRequest ==
  /\ web.requests <= 1
  /\ web.phase = "none" <=> web.requests = 0
  /\ web.phase # "none" => web.method = "GET" /\ web.timerMs = WebTimeout
  /\ WebOver => ScrapeDone
  /\ WebThrew => /\ ScrapeDone /\ scr.result.success = FALSE
                 /\ web.phase = "settled" /\ web.requests = 1

\* A request is sent only by the step in which the second strategy starts,
\* and the step in which _scrapeWithWebScraping resumes with a response
\* that is not ok or with an error ends scrape(), without another request
\* and without a wait.
C24_FailsAtOnce ==
  /\ web'.requests # web.requests =>
       /\ web.requests = 0 /\ web'.requests = 1
       /\ scr.pc = StrategyNames[1] /\ scr'.pc = StrategyNames[2]
  /\ (scr.pc = StrategyNames[2] /\ web'.phase = "settled" /\ ~web'.abortPending
        /\ (web'.error # NoError \/ ~(web'.status \in 200..299))) =>
       /\ scr'.pc = "done" /\ scr'.result = FailureResult
       /\ web'.requests = web.requests
       /\ waited' = waited /\ attempt' = attempt

\* C24: Web Scraping sends exactly one GET per scrape() in which it runs
\* and never retries: when that request ends with a non-2xx response, a
\* transport error or a timeout the strategy has failed and scrape() is
\* over, whatever maxRetries and retryDelay of the client are.
C24_SinglePageRequest == []C24_OneRequest /\ [][C24_FailsAtOnce]_vars

\* The API requests were each tried twice, the page request once: it was
\* answered 500 and scrape() is over.
C24_Witness ==
  /\ client.maxRetries = 2 /\ Len(log["cc"]) = 2 /\ Len(log["tmc"]) = 2
  /\ WebThrew /\ web.status = 500 /\ web.requests = 1
  /\ ScrapeDone /\ ~scr.result.success
\* ---------------------------------------------- scrape() called again
\* The part of a result the claim compares.
Shown(result) ==
  [success |-> result.success, data |-> result.data,
   method |-> IF "method" \in DOMAIN result THEN result.method ELSE ""]

\* The call that has just ended answers like every earlier call during
\* which the transport did the same; its data object is none of the objects
\* returned before, and those still hold what they held when returned.
C25_SameAnswer ==
  /\ ScrapeDone =>
       \A e \in prev.seen :
         /\ e.obs = Observation => Shown(e.result) = Shown(scr.result)
         /\ e.ref # NewObject(prev.objects)
  /\ \A e \in prev.seen : prev.objects[e.ref] = e.result.data
  /\ \A e1, e2 \in prev.seen : e1.ref = e2.ref => e1.call = e2.call

\* What the caller keeps of the earlier calls stays as it is, and no call
\* changes the scraper's client.
C25_ResultKept ==
  /\ \A e \in prev.seen : e \in prev'.seen
  /\ client' = client

C26_AttemptsBounded ==
  Finished(R) => Len(log[R]) >= 1 /\ Len(log[R]) <= client.maxRetries

\* C26: every call of makeRequest eventually returns a response or fails,
\* after at least 1 and at most maxRetries attempts; an attempt whose
\* response has started but whose body never completes still settles.
C26_EveryCallFinishes ==
  /\ []C26_AttemptsBounded
  /\ (pc[R] = "await") ~> (pc[R] # "await")
  /\ (pc[R] # "idle") ~> Finished(R)

\* The part of C26 that holds: while no response has arrived the attempt
\* settles, by the timer at the latest.
C26_PendingSettles ==
  (pc[R] = "await" /\ ex[R].phase = "pending") ~> (ex[R].phase # "pending")
\* ----------------------------------------- makeRequest, other statuses
\* A status that is neither 2xx nor 4xx.
OtherStatus(status) == status \notin 200..299 /\ status \notin 400..499

\* C27: makeRequest returns a response only with a status in [200,300) and
\* ok = TRUE or with a status in [400,500) and ok = FALSE; a response with
\* any other status (1xx, 3xx, 5xx) is a failed attempt: a backoff and a
\* retry follow, and after the last attempt makeRequest fails with the
\* HTTP-status error of that response.
C27_OnlyOkOrClientErrorReturned ==
  /\ \A status \in {100, 101, 199, 300, 304, 399, 500, 503, 599} :
       ~IsOk(status) /\ ~IsClientError(status)
  /\ pc[R] = "returned" =>
       \/ ret[R].response.status \in 200..299 /\ ret[R].response.ok
       \/ ret[R].response.status \in 400..499 /\ ~ret[R].response.ok
  /\ \A i \in 1..Len(log[R]) :
       (log[R][i].kind = "response" /\ OtherStatus(log[R][i].status)) =>
         /\ pc[R] # "returned" \/ i < Len(log[R])
         /\ i < client.maxRetries =>
              \/ i = Len(log[R]) /\ pc[R] = "backoff" /\ waited[R] = WaitBefore(i + 1)
              \/ attempt[R] > i /\ waited[R] >= WaitBefore(i + 1)
         /\ i = client.maxRetries =>
              /\ pc[R] = "thrown"
              /\ ret[R].error = HttpError(ResponseOf(log[R][i].status, ex[R].body))

\* Three redirects in a row: makeRequest has failed with the error of the
\* last one, after both backoffs.
C27_Witness ==
  /\ client.maxRetries = 3 /\ pc[R] = "thrown"
  /\ log[R] = <<LogResponse(300), LogResponse(399), LogResponse(300)>>
  /\ waited[R] = WaitBefore(3)
  /\ ret[R].error.message = "HTTP 300: " \o StatusMessage(300)
\* ------------------------------------------------ TeleManasDataService
C28_CacheHoldsSuccess == svc.cache.present => svc.cache.data.success = TRUE

\* What one step of a call c of getLatestData does to the cache and to the
\* caller.
C28_Step ==
  \A c \in Calls :
    LET young == svc.cache.present /\ svc.clock - svc.cache.timestamp < svc.cacheTimeout
        before == svc.calls[c]
        after == svc'.calls[c]
    IN /\ (before.pc = "idle" /\ after.pc # "idle") =>
            /\ svc'.cache = svc.cache
            /\ (after.pc = "done") <=> (after.useCache /\ young)
            /\ after.pc = "done" => after.hit /\ after.ret = svc.cache.data
            /\ after.pc # "done" => after.pc = "scraping" /\ ~after.hit
       /\ (before.pc = "scraping" /\ after.pc = "done") =>
            /\ ~after.hit
            /\ after.ret.success =>
                 svc'.cache = [data |-> after.ret, timestamp |-> svc.clock, present |-> TRUE]
            /\ ~after.ret.success => svc'.cache = svc.cache

\* C28: the cache only ever holds successful results; a failed scrape is
\* returned but not stored and leaves an earlier entry in place; a call
\* with useCache = true returns the entry without scraping exactly when one
\* exists and is younger than cacheTimeout; a call with useCache = false
\* always scrapes and still stores a success.
C28_CacheOnlySuccess == []C28_CacheHoldsSuccess /\ [][C28_Step]_vars

\* A failed scrape was returned to a caller while the success stored
\* earlier is still in the cache.
C28_Witness ==
  /\ svc.cache.present /\ svc.cache.data.success
  /\ \E c \in Calls :
       /\ svc.calls[c].pc = "done" /\ ~svc.calls[c].hit
       /\ ~svc.calls[c].useCache
       /\ svc.calls[c].ret = FailureResult
\* ------------------------------------------------------ the mock server
\* C29: POST /admin/updateData changes only the fields supplied with a
\* truthy value and leaves the others as they were; each periodic refresh
\* replaces the whole mock data: teleManasCells, mentoringInstitutes and
\* regionalCoordinatingCenters are "53", "23" and "5" again and totalCalls
\* is computed from the fixed base, whatever an earlier updateData had set.
C29_UpdateAndRefresh ==
  /\ mock.last.op = "updateData" =>
       \A f \in Fields :
         /\ mock.last.body[f] \in {JUndef, JNum(0)} => mock.data[f] = mock.last.before[f]
         /\ mock.last.body[f] = JStr("7") => mock.data[f] = "7"
         /\ mock.last.body[f] = JNum(60) => mock.data[f] = "60"
  /\ mock.last.op = "refresh" =>
       /\ mock.data.teleManasCells = "53"
       /\ mock.data.mentoringInstitutes = "23"
       /\ mock.data.regionalCoordinatingCenters = "5"
       /\ mock.data.totalCalls \in
            {"2821889", "2822888", "2823039", "2824038"}
       /\ mock.data.totalCalls = ToString(2821889 + mock.last.variation)

\* A refresh has replaced the values an updateData had set.
C29_Witness ==
  /\ mock.last.op = "refresh"
  /\ mock.last.before.teleManasCells = "7" /\ mock.last.before.totalCalls = "60"
  /\ mock.data.teleManasCells = "53" /\ mock.data.totalCalls = "2824038"
\* ----------------------------------------------------- the proxy server
\* The response sent is the one the upstream outcome calls for, and there
\* is at most one per request.
C30_AnswerMatches ==
  /\ proxy.responses <= 1
  /\ proxy.responses = 1 <=> proxy.phase = "answered"
  /\ proxy.phase = "answered" =>
       /\ proxy.cause.kind = "end" =>
            /\ proxy.answer.status = proxy.cause.status
            /\ proxy.answer.error = ""
            /\ proxy.cause.text = BodyCalls =>
                 proxy.answer.data = DObj([k \in {"Total_Calls"} |-> JStr("2821889")])
            /\ proxy.cause.text \in {BodyHtml, BodyNone} =>
                 proxy.answer.data = DText(proxy.cause.text)
       /\ proxy.cause.kind \in {"error", "timeout"} =>
            /\ proxy.answer.status = 500
            /\ proxy.answer.error \in {"Failed to fetch call count", "Failed to fetch TMC count"}
            /\ proxy.cause.kind = "timeout" => proxy.answer.message = "Request timeout"
            /\ proxy.cause.kind = "error" =>
                 proxy.answer.message \in
                   {"connect ECONNREFUSED 127.0.0.1:443", "read ECONNRESET", "socket hang up"}

\* C30: every request to /getCallCount or /getTMCCount receives exactly
\* one response (the upstream body with 200, the upstream status and body
\* otherwise, 500 with an error body on a transport error or a timeout):
\* an upstream failure never leaves the request unanswered.
C30_EveryRequestAnswered ==
  /\ []C30_AnswerMatches
  /\ (proxy.phase \in {"pending", "receiving", "aborted"}) ~> (proxy.responses = 1)

====
